---- MODULE Spec2Model ----
(***************************************************************************)
(* A model of jsontools (src/jsontools/jsontools.py): the flattened-path   *)
(* codec, flatten, walk_structures, query_keys, search_by_keys and edit.   *)
(*                                                                         *)
(* Strings are sequences of one-character strings, so that the path        *)
(* formatting of flatten and the regular expression of                     *)
(* decompose_flatten_path are modelled character by character.             *)
(*                                                                         *)
(* JSON data lives in a heap of containers, as Python objects do: a value  *)
(* is a scalar [t |-> "s", v |-> n] or a reference [t |-> "r", v |-> id]   *)
(* to heap[id] = [t |-> "o" or "a", e |-> entries], an entry being         *)
(* [k |-> key, val |-> value] (k is <<>> and unused in a list).            *)
(***************************************************************************)
EXTENDS Integers, Sequences, FiniteSets, TLC

VARIABLES
    heap,     \* the containers of the caller's data, by identity
    root,     \* the value handed to the operation
    op,       \* the operation that ran last ("idle" before any)
    arg,      \* its arguments
    out,      \* what it yielded or returned
    pc,       \* position of edit: "idle", "walk", "keys", "done", "failed"
    stack,    \* frames of the suspended walk_structures generator inside edit
    node,     \* edit: id of the dict being edited (json_struct)
    snap,     \* edit: list(json_struct.items())
    ki,       \* edit: index in snap of the pair at hand
    log       \* edit: the dicts that walk_structures yielded to edit, in order

vars == <<heap, root, op, arg, out, pc, stack, node, snap, ki, log>>

---------------------------------------------------------------------------
(* Bounds of the model *)

\* nodes (containers and scalars) of an input tree of the traversal model
MaxNodes == 4
\* largest max_depth handed to walk_structures (besides -1, no limit)
MaxDepthArg == 2
\* nodes of an input tree of the edit model
MaxEditNodes == 4
\* length of a string handed to decompose_flatten_path as such
MaxTextLen == 3
\* nodes of an input tree of the run model
MaxRunNodes == 4
\* nodes of an input tree of the rerun model
MaxRerunNodes == 3
\* nodes of an input tree of the unflatten model
MaxUnflattenNodes == 5
MaxNameLen == 3
MaxLiveNodes == 3
MaxFrameNodes == 4

---------------------------------------------------------------------------
(* Strings *)

Digits == <<"0", "1", "2", "3", "4", "5", "6", "7", "8", "9">>

\* str(i) of f'[{i}]', i >= 0
RECURSIVE IntToStr(_)
IntToStr(i) ==
    IF i < 10 THEN <<Digits[i + 1]>>
    ELSE IntToStr(i \div 10) \o <<Digits[(i % 10) + 1]>>

DigitVal(c) == CHOOSE d \in 0..9 : Digits[d + 1] = c

\* int(s) for a non-empty string of digits
RECURSIVE StrToInt(_)
StrToInt(s) ==
    IF Len(s) = 0 THEN 0
    ELSE 10 * StrToInt(SubSeq(s, 1, Len(s) - 1)) + DigitVal(s[Len(s)])

IsDigit(c) == \E d \in 1..10 : Digits[d] = c

---------------------------------------------------------------------------
(* JSON values *)

Scalar(n) == [t |-> "s", v |-> n]
Ref(id) == [t |-> "r", v |-> id]

IsRef(x) == x.t = "r"
IsDict(h, x) == IsRef(x) /\ h[x.v].t = "o"
IsList(h, x) == IsRef(x) /\ h[x.v].t = "a"

---------------------------------------------------------------------------
(* Input trees: every tree of at most a given number of nodes, the keys of *)
(* a dict distinct.  A tree is                                             *)
(* [t |-> "s"/"o"/"a", v |-> scalar, e |-> entries].                       *)

KA == <<"a">>
KB == <<"b">>
KSlash == <<"a", "/", "a">>
KBracket == <<"a", "[", "0", "]">>

PlainKeys == {KA, KB}
\* keys that hold a character of the path syntax, and the empty key
SpecialKeys == {KSlash, KBracket, <<>>}
\* the key sets of the input trees: the plain keys, or "a" and one special key
KeyFamilies == {PlainKeys} \cup {{KA, k} : k \in SpecialKeys}

TScalar(n) == [t |-> "s", v |-> n, e |-> <<>>]
TDict(es) == [t |-> "o", v |-> 0, e |-> es]
TList(es) == [t |-> "a", v |-> 0, e |-> es]

InputScalars == {1}

\* sequences of w distinct keys
KeySeqs(keys, w) ==
    {ks \in [1..w -> keys] : \A i, j \in 1..w : i # j => ks[i] # ks[j]}

RECURSIVE Forests(_, _, _)
\* sequences of w trees with n nodes in all, table[i] being the trees of i nodes
Forests(table, n, w) ==
    IF w = 0 THEN (IF n = 0 THEN {<<>>} ELSE {})
    ELSE UNION {
        {<<tr>> \o f : tr \in table[i], f \in Forests(table, n - i, w - 1)}
        : i \in 1..(n - (w - 1)) }

RECURSIVE Entries(_, _)
\* the entries of keys ks and values f, as a sequence
Entries(ks, f) ==
    IF Len(f) = 0 THEN <<>>
    ELSE Append(Entries(SubSeq(ks, 1, Len(f) - 1), SubSeq(f, 1, Len(f) - 1)),
                [k |-> ks[Len(f)], val |-> f[Len(f)]])

NoKeys(w) == [i \in 1..w |-> <<>>]

\* the trees of n nodes, table holding the trees of fewer nodes
TreesOfSize(keys, table, n) ==
    IF n = 1
    THEN {TScalar(s) : s \in InputScalars} \cup {TDict(<<>>), TList(<<>>)}
    ELSE UNION {
        LET fs == Forests(table, n - 1, w) IN
        {TList(Entries(NoKeys(w), f)) : f \in fs}
        \cup
        {TDict(Entries(ks, f))
            : ks \in KeySeqs(keys, w), f \in fs}
        : w \in 1..(n - 1) }

RECURSIVE TreeTable(_, _)
TreeTable(keys, n) ==
    IF n = 0 THEN <<>>
    ELSE LET table == TreeTable(keys, n - 1)
         IN Append(table, TreesOfSize(keys, table, n))

Trees(keys, n) == LET table == TreeTable(keys, n) IN UNION {table[i] : i \in 1..n}

\* The heap of a tree: containers numbered in pre-order.
RECURSIVE AllocTree(_, _), AllocEntries(_, _, _, _)
AllocEntries(h, id, es, i) ==
    IF i > Len(es) THEN h
    ELSE LET r == AllocTree(h, es[i].val)
             h2 == [r.h EXCEPT ![id].e = Append(@, [k |-> es[i].k, val |-> r.val])]
         IN AllocEntries(h2, id, es, i + 1)

AllocTree(h, tr) ==
    IF tr.t = "s" THEN [h |-> h, val |-> Scalar(tr.v)]
    ELSE LET id == Len(h) + 1
             h1 == Append(h, [t |-> tr.t, e |-> <<>>])
         IN [h |-> AllocEntries(h1, id, tr.e, 1), val |-> Ref(id)]

---------------------------------------------------------------------------
(* flatten *)

\* mutant: the separator is written under an empty prefix too
DictPrefixAlwaysSlash(prefix, key) == prefix \o <<"/">> \o key

\* mutant: the key alone, without the prefix
DictPrefixOfKey(prefix, key) == key

\* new_prefix of a dict entry
DictPrefix(prefix, key) == (IF prefix # <<>> THEN prefix \o <<"/">> ELSE <<>>) \o key

\* new_prefix of the i-th element (0-based) of a list
ListPrefix(prefix, i) == prefix \o <<"[">> \o IntToStr(i) \o <<"]">>

RECURSIVE Flatten(_, _, _), FlattenFrom(_, _, _, _)
\* mutant: the elements of a list are yielded as pairs too
FlattenFromYieldingElements(h, id, prefix, i) ==
    IF i > Len(h[id].e) THEN <<>>
    ELSE LET en == h[id].e[i]
             np == IF h[id].t = "o" THEN DictPrefix(prefix, en.k)
                   ELSE ListPrefix(prefix, i - 1)
         IN <<[path |-> np, val |-> en.val]>> \o Flatten(h, en.val, np)
                \o FlattenFrom(h, id, prefix, i + 1)

\* the loop of flatten over the entries of the container id, from the i-th on
FlattenFrom(h, id, prefix, i) ==
    IF i > Len(h[id].e) THEN <<>>
    ELSE LET en == h[id].e[i] IN
         IF h[id].t = "o"
         THEN LET np == DictPrefix(prefix, en.k) IN
              <<[path |-> np, val |-> en.val]>> \o Flatten(h, en.val, np)
                  \o FlattenFrom(h, id, prefix, i + 1)
         ELSE Flatten(h, en.val, ListPrefix(prefix, i - 1))
                  \o FlattenFrom(h, id, prefix, i + 1)

Flatten(h, x, prefix) ==
    IF IsRef(x) THEN FlattenFrom(h, x.v, prefix, 1) ELSE <<>>

---------------------------------------------------------------------------
(* walk_structures *)

RECURSIVE InnerWalk(_, _, _, _), InnerWalkFrom(_, _, _, _, _)
\* mutant: the values are visited last to first
InnerWalkFromReversed(h, id, i, cur, max) ==
    IF i > Len(h[id].e) THEN <<>>
    ELSE InnerWalkFrom(h, id, i + 1, cur, max) \o InnerWalk(h, h[id].e[i].val, cur, max)

\* the loops of inner_walk_structures over the values of the container id
InnerWalkFrom(h, id, i, cur, max) ==
    IF i > Len(h[id].e) THEN <<>>
    ELSE InnerWalk(h, h[id].e[i].val, cur, max) \o InnerWalkFrom(h, id, i + 1, cur, max)

\* mutant: going through a list counts as a level
InnerWalkListDeeper(h, x, cur, max) ==
    IF max # -1 /\ cur > max THEN <<>>
    ELSE IF IsDict(h, x) THEN <<x.v>> \o InnerWalkFrom(h, x.v, 1, cur + 1, max)
    ELSE IF IsList(h, x) THEN InnerWalkFrom(h, x.v, 1, cur + 1, max)
    ELSE <<>>

\* inner_walk_structures: the ids of the dicts it yields
InnerWalk(h, x, cur, max) ==
    IF max # -1 /\ cur > max THEN <<>>
    ELSE IF IsDict(h, x) THEN <<x.v>> \o InnerWalkFrom(h, x.v, 1, cur + 1, max)
    ELSE IF IsList(h, x) THEN InnerWalkFrom(h, x.v, 1, cur, max)
    ELSE <<>>

WalkStructures(h, x, max) == InnerWalk(h, x, 0, max)

-------------------------------------------------------------------------------------------------------------------------------------------------
(* decompose_flatten_path *)
(* FLATTEN_PATH_END is, in order: an optional group "[" index "]" with     *)
(* index one or more digits, an optional "/", the group key of any number  *)
(* of characters other than "/", "[" and "]", and the end of the string.   *)

IsKeyChar(c) == c \notin {"/", "[", "]"}

\* key and "$" at position j: the rest of p holds key characters only
KeyToEnd(p, j) == \A n \in j..Len(p) : IsKeyChar(p[n])

\* optional "/", key and "$" at position j: where the key starts, 0 without match.
\* The optional "/" is taken when it is there (greedy); without it the key
\* has to run from j to the end.
TailMatch(p, j) ==
    IF j <= Len(p) /\ p[j] = "/" /\ KeyToEnd(p, j + 1) THEN j + 1
    ELSE IF KeyToEnd(p, j) THEN j
    ELSE 0

\* "[" index "]" at position i: the position of its "]", 0 without match
IndexEnd(p, i) ==
    IF i <= Len(p) /\ p[i] = "["
    THEN LET ends == {e \in (i + 2)..Len(p) :
                         /\ p[e] = "]"
                         /\ \A n \in (i + 1)..(e - 1) : IsDigit(p[n])}
         IN IF ends = {} THEN 0 ELSE CHOOSE e \in ends : TRUE
    ELSE 0

NoMatch == [ok |-> FALSE, start |-> 0, hasIndex |-> FALSE, index |-> <<>>, key |-> <<>>]

\* mutant: the pattern without its index group
MatchAtWithoutIndex(p, i) ==
    LET without == TailMatch(p, i)
    IN IF without # 0
       THEN [ok |-> TRUE, start |-> i, hasIndex |-> FALSE,
             index |-> <<>>, key |-> SubSeq(p, without, Len(p))]
       ELSE NoMatch

\* the pattern tried at position i: first with the index group, then without
MatchAt(p, i) ==
    LET e == IndexEnd(p, i)
        withIndex == IF e # 0 THEN TailMatch(p, e + 1) ELSE 0
        without == TailMatch(p, i)
    IN IF withIndex # 0
       THEN [ok |-> TRUE, start |-> i, hasIndex |-> TRUE,
             index |-> SubSeq(p, i + 1, e - 1), key |-> SubSeq(p, withIndex, Len(p))]
       ELSE IF without # 0
       THEN [ok |-> TRUE, start |-> i, hasIndex |-> FALSE,
             index |-> <<>>, key |-> SubSeq(p, without, Len(p))]
       ELSE NoMatch

\* mutant: the match at the rightmost position
SearchRightmost(p) ==
    LET starts == {i \in 1..(Len(p) + 1) : MatchAt(p, i).ok}
    IN IF starts = {} THEN NoMatch
       ELSE MatchAt(p, CHOOSE i \in starts : \A j \in starts : i >= j)

\* FLATTEN_PATH_END.search: the match at the leftmost position that has one
Search(p) ==
    LET starts == {i \in 1..(Len(p) + 1) : MatchAt(p, i).ok}
    IN IF starts = {} THEN NoMatch
       ELSE MatchAt(p, CHOOSE i \in starts : \A j \in starts : i <= j)

\* mutant: only the key is cut from the end of p
SubEndKeyOnly(p) ==
    LET m == Search(p) IN IF m.ok THEN SubSeq(p, 1, Len(p) - Len(m.key)) ELSE p

\* re.sub(FLATTEN_PATH_END, '', p): the leftmost match runs to the end of p,
\* and the empty match left at the end is replaced by nothing
SubEnd(p) ==
    LET m == Search(p) IN IF m.ok THEN SubSeq(p, 1, m.start - 1) ELSE p

None == [some |-> FALSE, n |-> 0]
Some(n) == [some |-> TRUE, n |-> n]

DecomposeFlattenPath(p) ==
    LET search == Search(p) IN
    IF ~search.ok THEN [raised |-> "ValueError", prefix |-> <<>>, index |-> None, key |-> <<>>]
    ELSE LET index == IF search.hasIndex THEN Some(StrToInt(search.index)) ELSE None
             key == search.key
             prefix0 == SubEnd(p)
             prefix == IF ~index.some
                       THEN prefix0 \o (IF prefix0 # <<>> THEN <<"/">> ELSE <<>>) \o key
                       ELSE prefix0
         IN [raised |-> "", prefix |-> prefix, index |-> index, key |-> key]

---------------------------------------------------------------------------
(* Regular expressions, as re.compile leaves them: a pattern is a sequence *)
(* of items [t, c, sub], an item being a literal character c ("lit"), the  *)
(* greedy ".*" ("dotstar"), a capturing group of the items sub ("cap"), a  *)
(* non-capturing group ("grp"), or an optional non-capturing group, "?"    *)
(* after the group ("opt").  Capturing groups are numbered by their        *)
(* opening parenthesis.  Matching backtracks as re does: MatchSeq lists    *)
(* the ways to match in the order re tries them, each with the position    *)
(* after the match and the groups.                                         *)

Lit(c) == [t |-> "lit", c |-> c, sub |-> <<>>]
DotStar == [t |-> "dotstar", c |-> "", sub |-> <<>>]
Cap(items) == [t |-> "cap", c |-> "", sub |-> items]
Grp(items) == [t |-> "grp", c |-> "", sub |-> items]
Opt(items) == [t |-> "opt", c |-> "", sub |-> items]

NoText == [none |-> TRUE, s |-> <<>>]
Text(s) == [none |-> FALSE, s |-> s]

RECURSIVE NumCaps(_)
\* len(match.groups()): the capturing groups of a pattern
NumCaps(items) ==
    IF items = <<>> THEN 0
    ELSE (IF Head(items).t = "cap" THEN 1 ELSE 0)
             + NumCaps(Head(items).sub) + NumCaps(Tail(items))

RECURSIVE MatchSeq(_, _, _, _, _, _), MatchItem(_, _, _, _, _), MatchRest(_, _, _, _, _, _)
\* the item it at position pos of s, base groups opening before it
MatchItem(it, s, pos, g, base) ==
    CASE it.t = "lit" ->
            IF pos <= Len(s) /\ s[pos] = it.c THEN <<[pos |-> pos + 1, g |-> g]>> ELSE <<>>
      [] it.t = "dotstar" ->
            [n \in 1..(Len(s) - pos + 2) |-> [pos |-> Len(s) + 2 - n, g |-> g]]
      [] it.t = "cap" ->
            LET rs == MatchSeq(it.sub, 1, s, pos, g, base + 1) IN
            [n \in 1..Len(rs) |->
                [pos |-> rs[n].pos,
                 g |-> [rs[n].g EXCEPT ![base + 1] = Text(SubSeq(s, pos, rs[n].pos - 1))]]]
      [] it.t = "grp" -> MatchSeq(it.sub, 1, s, pos, g, base)
      [] it.t = "opt" -> MatchSeq(it.sub, 1, s, pos, g, base) \o <<[pos |-> pos, g |-> g]>>

\* the items after the i-th, for the n-th and later ways rs of matching the i-th
MatchRest(rs, n, items, i, s, base) ==
    IF n > Len(rs) THEN <<>>
    ELSE MatchSeq(items, i + 1, s, rs[n].pos, rs[n].g, base)
             \o MatchRest(rs, n + 1, items, i, s, base)

\* the items from the i-th on at position pos of s
MatchSeq(items, i, s, pos, g, base) ==
    IF i > Len(items) THEN <<[pos |-> pos, g |-> g]>>
    ELSE MatchRest(MatchItem(items[i], s, pos, g, base), 1, items, i, s,
                   base + NumCaps(<<items[i]>>))

NoMatchObject == [ok |-> FALSE, g |-> <<>>]

\* mutant: re.match, the pattern has only to match at the start of s
ReMatch(items, s) ==
    LET ways == MatchSeq(items, 1, s, 1, [n \in 1..NumCaps(items) |-> NoText], 0)
    IN IF ways = <<>> THEN NoMatchObject ELSE [ok |-> TRUE, g |-> ways[1].g]

\* re.fullmatch(pattern, s): the first way that ends at the end of s
FullMatch(items, s) ==
    LET ways == MatchSeq(items, 1, s, 1, [n \in 1..NumCaps(items) |-> NoText], 0)
        full == {n \in 1..Len(ways) : ways[n].pos = Len(s) + 1}
    IN IF full = {} THEN NoMatchObject
       ELSE [ok |-> TRUE, g |-> ways[CHOOSE n \in full : \A m \in full : n <= m].g]

\* mutant: the first group is reported
FirstGroup(items, m, s) ==
    IF NumCaps(items) = 0 THEN Text(s) ELSE m.g[1]

\* match.group(len(match.groups())): group 0 is the whole match
LastGroup(items, m, s) ==
    IF NumCaps(items) = 0 THEN Text(s) ELSE m.g[NumCaps(items)]

---------------------------------------------------------------------------
(* query_keys and search_by_keys *)

RECURSIVE QueryFrom(_, _, _)
\* the loop of query_keys over the pairs fl of flatten, from the i-th on
QueryFrom(fl, i, pattern) ==
    IF i > Len(fl) THEN <<>>
    ELSE LET m == FullMatch(pattern, fl[i].path) IN
         (IF m.ok THEN <<[key |-> LastGroup(pattern, m, fl[i].path), val |-> fl[i].val]>>
          ELSE <<>>)
             \o QueryFrom(fl, i + 1, pattern)

QueryKeys(h, x, pattern) == QueryFrom(Flatten(h, x, <<>>), 1, pattern)

NoParse == [ok |-> FALSE, items |-> <<>>, pos |-> 0]

RECURSIVE ParseSeq(_, _)
\* re.compile, for the patterns written with literal characters, ".*",
\* groups "(...)" and "(?:...)" and "?" after an item: the items from
\* position i of the text t up to its end or to a ")", and the position
\* reached.  It fails (re.error) on a group that is not closed and on a "*"
\* or a "?" that follows nothing.
ParseSeq(t, i) ==
    IF i > Len(t) \/ t[i] = ")" THEN [ok |-> TRUE, items |-> <<>>, pos |-> i]
    ELSE LET c == t[i]
             nonCapturing == c = "(" /\ i + 2 <= Len(t) /\ t[i + 1] = "?" /\ t[i + 2] = ":"
             inner == ParseSeq(t, IF nonCapturing THEN i + 3 ELSE i + 1)
             atom ==
                CASE c = "(" ->
                        IF inner.ok /\ inner.pos <= Len(t)
                        THEN [ok |-> TRUE,
                              items |-> <<IF nonCapturing THEN Grp(inner.items)
                                                          ELSE Cap(inner.items)>>,
                              pos |-> inner.pos + 1]
                        ELSE NoParse
                  [] c = "." ->
                        IF i + 1 <= Len(t) /\ t[i + 1] = "*"
                        THEN [ok |-> TRUE, items |-> <<DotStar>>, pos |-> i + 2]
                        ELSE NoParse
                  [] c \in {"*", "?"} -> NoParse
                  [] OTHER -> [ok |-> TRUE, items |-> <<Lit(c)>>, pos |-> i + 1]
         IN IF ~atom.ok THEN NoParse
            ELSE LET optional == atom.pos <= Len(t) /\ t[atom.pos] = "?"
                     item == IF ~optional THEN atom.items[1]
                             ELSE IF atom.items[1].t = "grp" THEN Opt(atom.items[1].sub)
                             ELSE Opt(atom.items)
                     rest == ParseSeq(t, IF optional THEN atom.pos + 1 ELSE atom.pos)
                 IN IF rest.ok
                    THEN [ok |-> TRUE, items |-> <<item>> \o rest.items, pos |-> rest.pos]
                    ELSE NoParse

\* re.compile(key_pattern): a ")" that closes nothing is an error too
Compile(t) ==
    LET r == ParseSeq(t, 1)
    IN IF r.ok /\ r.pos = Len(t) + 1 THEN [ok |-> TRUE, items |-> r.items]
       ELSE [ok |-> FALSE, items |-> <<>>]

\* mutant: the pattern is compiled inside the loop, for the first pair
QueryKeysCompilingInLoop(h, x, text) ==
    LET c == Compile(text)
        fl == Flatten(h, x, <<>>)
    IN IF c.ok
       THEN [raised |-> "", pairs |-> QueryFrom(fl, 1, c.items), flattened |-> Len(fl)]
       ELSE IF fl = <<>> THEN [raised |-> "", pairs |-> <<>>, flattened |-> 0]
       ELSE [raised |-> "ValueError", pairs |-> <<>>, flattened |-> 1]

\* query_keys(json_content, key_pattern) iterated to its end, the pattern
\* given as text: what it raised, the pairs it yielded and the number of
\* pairs it took from flatten
QueryKeysOfText(h, x, text) ==
    LET c == Compile(text)
        fl == Flatten(h, x, <<>>)
    IN IF ~c.ok THEN [raised |-> "ValueError", pairs |-> <<>>, flattened |-> 0]
       ELSE [raised |-> "", pairs |-> QueryFrom(fl, 1, c.items), flattened |-> Len(fl)]

\* mutant: every structure is queried from the root
ToCheckFromRoot(h, x, id, patterns) ==
    [n \in 1..Len(patterns) |-> QueryKeys(h, x, patterns[n]) # <<>>]

\* to_check of search_by_keys for the structure id: bool(dict(query_keys(...)))
\* of every pattern
ToCheck(h, x, id, patterns) ==
    [n \in 1..Len(patterns) |-> QueryKeys(h, Ref(id), patterns[n]) # <<>>]

\* mutant: any where all is asked for, and all where any is
CheckSwapped(all, toCheck) ==
    IF all THEN \E n \in 1..Len(toCheck) : toCheck[n]
    ELSE \A n \in 1..Len(toCheck) : toCheck[n]

\* check = all if all_ else any
Check(all, toCheck) ==
    IF all THEN \A n \in 1..Len(toCheck) : toCheck[n]
    ELSE \E n \in 1..Len(toCheck) : toCheck[n]

\* mutant: to_check is not emptied for the next structure
SearchByKeysAccumulating(h, x, patterns, all) ==
    LET walk == WalkStructures(h, x, -1)
        upTo(i) == [n \in 1..(i * Len(patterns)) |->
                       ToCheck(h, x, walk[((n - 1) \div Len(patterns)) + 1], patterns)
                              [((n - 1) % Len(patterns)) + 1]]
        kept == {i \in 1..Len(walk) : Check(all, upTo(i))}
        nth(n) == CHOOSE i \in kept : Cardinality({j \in kept : j < i}) = n - 1
    IN [n \in 1..Cardinality(kept) |-> walk[nth(n)]]

SearchByKeys(h, x, patterns, all) ==
    SelectSeq(WalkStructures(h, x, -1),
              LAMBDA id : Check(all, ToCheck(h, x, id, patterns)))

---------------------------------------------------------------------------
(* The traversal model: flatten, walk_structures and decompose_flatten_path *)
(* applied to an input tree                                                 *)

TraversalInit ==
    /\ \E tr \in UNION {Trees(ks, MaxNodes) : ks \in KeyFamilies} :
          LET r == AllocTree(<<>>, tr) IN heap = r.h /\ root = r.val
    /\ op = "idle" /\ arg = <<>> /\ out = <<>>
    /\ pc = "idle" /\ stack = <<>> /\ node = 0 /\ snap = <<>> /\ ki = 0
    /\ log = <<>>

editVars == <<pc, stack, node, snap, ki, log>>

\* list(flatten(root))
DoFlatten ==
    /\ op = "idle"
    /\ op' = "flatten" /\ arg' = <<>>
    /\ out' = Flatten(heap, root, <<>>)
    /\ UNCHANGED <<heap, root, editVars>>

DepthArgs == {-1} \cup 0..MaxDepthArg

\* list(walk_structures(root, max_depth=d))
DoWalk ==
    /\ op = "idle"
    /\ \E d \in DepthArgs :
          /\ op' = "walk" /\ arg' = <<d>>
          /\ out' = WalkStructures(heap, root, d)
    /\ UNCHANGED <<heap, root, editVars>>

\* decompose_flatten_path of the i-th path that flatten(root) produced
DoDecompose ==
    /\ op = "flatten"
    /\ \E i \in 1..Len(out) :
          /\ op' = "decompose" /\ arg' = <<i, out[i].path>>
          /\ out' = DecomposeFlattenPath(out[i].path)
    /\ UNCHANGED <<heap, root, editVars>>

PathC3 == <<"c", "[", "3", "]">>
PathC3CC == <<"c", "[", "3", "]", "/", "c", "-", "c", "/", "c", "-", "c", "-", "c">>
\* the paths of the docstring of decompose_flatten_path
DocPaths == {PathC3, PathC3CC}

\* decompose_flatten_path of a path written by the caller
DoDecomposeDoc ==
    /\ op = "idle"
    /\ \E p \in DocPaths :
          /\ op' = "decompose" /\ arg' = <<0, p>>
          /\ out' = DecomposeFlattenPath(p)
    /\ UNCHANGED <<heap, root, editVars>>

\* decompose_flatten_path of the path of an element of a list: the prefix
\* that flatten hands down for the j-th element (from 0) of the list that is
\* the value of its i-th pair, or of the root when i is 0
DoDecomposeElement ==
    /\ op = "flatten"
    /\ \E i \in 0..Len(out) :
          LET x == IF i = 0 THEN root ELSE out[i].val
              prefix == IF i = 0 THEN <<>> ELSE out[i].path
          IN /\ IsList(heap, x)
             /\ \E j \in 0..(Len(heap[x.v].e) - 1) :
                   /\ op' = "decompose_element"
                   /\ arg' = <<i, ListPrefix(prefix, j), j>>
                   /\ out' = DecomposeFlattenPath(ListPrefix(prefix, j))
    /\ UNCHANGED <<heap, root, editVars>>

\* the characters of the strings handed to decompose_flatten_path as such
TextChars == {"a", "/", "[", "]", "0"}

RECURSIVE Texts(_)
\* the strings of at most n of these characters
Texts(n) ==
    IF n = 0 THEN {<<>>}
    ELSE LET shorter == Texts(n - 1)
         IN shorter \cup {Append(t, c) : t \in shorter, c \in TextChars}

\* decompose_flatten_path of any string
DoDecomposeText ==
    /\ op = "idle"
    /\ \E p \in Texts(MaxTextLen) :
          /\ op' = "decompose_text"
          /\ arg' = <<p>>
          /\ out' = DecomposeFlattenPath(p)
    /\ UNCHANGED <<heap, root, editVars>>

Next ==
    \/ DoFlatten
    \/ DoWalk
    \/ DoDecompose
    \/ DoDecomposeDoc
    \/ DoDecomposeElement

Spec == TraversalInit /\ [][Next]_vars

\* decompose_flatten_path takes no tree
TextInit ==
    /\ heap = <<>> /\ root = Scalar(1)
    /\ op = "idle" /\ arg = <<>> /\ out = <<>>
    /\ pc = "idle" /\ stack = <<>> /\ node = 0 /\ snap = <<>> /\ ki = 0
    /\ log = <<>>

TextNext == DoDecomposeText

TextSpec == TextInit /\ [][TextNext]_vars

---------------------------------------------------------------------------
(* The query model: query_keys and search_by_keys applied to an input tree *)

\* a
PatA == <<Lit("a")>>
\* .*a
PatEndsA == <<DotStar, Lit("a")>>
\* .*/(a)
PatSlashCapA == <<DotStar, Lit("/"), Cap(<<Lit("a")>>)>>
\* (.*)/(.*)
PatTwoCaps == <<Cap(<<DotStar>>), Lit("/"), Cap(<<DotStar>>)>>
\* (?:.*/)?(b)
PatOptPrefixCapB == <<Opt(<<DotStar, Lit("/")>>), Cap(<<Lit("b")>>)>>
\* a(?:(/b))?
PatAOptCap == <<Lit("a"), Opt(<<Cap(<<Lit("/"), Lit("b")>>)>>)>>
\* (?:a)/.*
PatGrpASlash == <<Grp(<<Lit("a")>>), Lit("/"), DotStar>>

QueryPatterns ==
    {PatA, PatEndsA, PatSlashCapA, PatTwoCaps, PatOptPrefixCapB, PatAOptCap, PatGrpASlash}

SearchPatterns == {PatA, PatSlashCapA, PatOptPrefixCapB}
\* the pattern lists handed to search_by_keys: none, one or two patterns
PatternLists ==
    {<<>>} \cup {<<p>> : p \in SearchPatterns}
           \cup {<<p, q>> : p \in SearchPatterns, q \in SearchPatterns}

QueryInit ==
    /\ \E tr \in Trees(PlainKeys, MaxNodes) :
          LET r == AllocTree(<<>>, tr) IN heap = r.h /\ root = r.val
    /\ op = "idle" /\ arg = <<>> /\ out = <<>>
    /\ pc = "idle" /\ stack = <<>> /\ node = 0 /\ snap = <<>> /\ ki = 0
    /\ log = <<>>

\* list(query_keys(root, pattern))
DoQuery ==
    /\ op = "idle"
    /\ \E pattern \in QueryPatterns :
          /\ op' = "query" /\ arg' = <<pattern>>
          /\ out' = QueryKeys(heap, root, pattern)
    /\ UNCHANGED <<heap, root, editVars>>

\* list(search_by_keys(root, *patterns, all_=all))
DoSearch ==
    /\ op = "idle"
    /\ \E patterns \in PatternLists, all \in BOOLEAN :
          /\ op' = "search" /\ arg' = <<patterns, all>>
          /\ out' = SearchByKeys(heap, root, patterns, all)
    /\ UNCHANGED <<heap, root, editVars>>

\* the texts of the patterns above
GoodPatternTexts ==
    { <<"a">>,
      <<".", "*", "a">>,
      <<".", "*", "/", "(", "a", ")">>,
      <<"(", ".", "*", ")", "/", "(", ".", "*", ")">>,
      <<"(", "?", ":", ".", "*", "/", ")", "?", "(", "b", ")">>,
      <<"a", "(", "?", ":", "(", "/", "b", ")", ")", "?">>,
      <<"(", "?", ":", "a", ")", "/", ".", "*">> }

\* texts that re.compile refuses
BadPatternTexts ==
    { <<"(">>, <<")">>, <<"a", "(">>, <<"a", ")">>, <<"(", "a">>,
      <<"*", "a">>, <<"?", "a">>, <<"(", "?", ":", "a">>,
      <<".", "*", "/", "(", "a">>, <<"(", "a", ")", ")">> }

PatternTexts == GoodPatternTexts \cup BadPatternTexts

\* list(query_keys(root, text)), the pattern given as text
DoQueryText ==
    /\ op = "idle"
    /\ \E text \in PatternTexts :
          /\ op' = "query_text" /\ arg' = <<text>>
          /\ out' = QueryKeysOfText(heap, root, text)
    /\ UNCHANGED <<heap, root, editVars>>

QueryNext == DoQuery \/ DoSearch \/ DoQueryText

QuerySpec == QueryInit /\ [][QueryNext]_vars

---------------------------------------------------------------------------
(* convert_name_to_naming_convention.  Names are written with the letters  *)
(* a, b, A and B, the digit 1, the underline and the space.                *)

NameChars == {"a", "b", "A", "B", "1", "_", " "}

IsUpper(c) == c \in {"A", "B"}
IsLower(c) == c \in {"a", "b"}
\* \w of re: a letter, a digit or the underline
IsWordChar(c) == IsUpper(c) \/ IsLower(c) \/ IsDigit(c) \/ c = "_"

UpperChar(c) == CASE c = "a" -> "A" [] c = "b" -> "B" [] OTHER -> c
LowerChar(c) == CASE c = "A" -> "a" [] c = "B" -> "b" [] OTHER -> c

\* str.lower and str.upper
Lower(s) == [i \in 1..Len(s) |-> LowerChar(s[i])]
Upper(s) == [i \in 1..Len(s) |-> UpperChar(s[i])]

\* str.replace(old, new) for single characters
Replace(s, old, new) == [i \in 1..Len(s) |-> IF s[i] = old THEN new ELSE s[i]]

\* str.strip
Strip(s) ==
    LET inside == {i \in 1..Len(s) : s[i] # " "}
    IN IF inside = {} THEN <<>>
       ELSE SubSeq(s, CHOOSE i \in inside : \A j \in inside : i <= j,
                      CHOOSE i \in inside : \A j \in inside : i >= j)

\* s[1:]
DropFirst(s) == SubSeq(s, 2, Len(s))

\* str.capitalize: the first character in upper case, the others in lower case
Capitalize(s) == [i \in 1..Len(s) |-> IF i = 1 THEN UpperChar(s[i]) ELSE LowerChar(s[i])]

\* str.title: a letter that follows no letter in upper case, the others in
\* lower case
Title(s) ==
    [i \in 1..Len(s) |->
        IF i = 1 \/ ~(IsUpper(s[i - 1]) \/ IsLower(s[i - 1]))
        THEN UpperChar(s[i]) ELSE LowerChar(s[i])]

RECURSIVE UnderlineUppers(_, _)
\* re.sub(r'([A-Z])', r'_\1', s), from position i
UnderlineUppers(s, i) ==
    IF i > Len(s) THEN <<>>
    ELSE (IF IsUpper(s[i]) THEN <<"_", s[i]>> ELSE <<s[i]>>) \o UnderlineUppers(s, i + 1)

RECURSIVE UnderlineMatches(_, _)
\* re.finditer(r'_\w', s) from position i: the texts matched, left to right,
\* no two of them overlapping
UnderlineMatches(s, i) ==
    IF i >= Len(s) THEN <<>>
    ELSE IF s[i] = "_" /\ IsWordChar(s[i + 1])
         THEN <<SubSeq(s, i, i + 1)>> \o UnderlineMatches(s, i + 2)
         ELSE UnderlineMatches(s, i + 1)

\* re.sub(m, m[-1].upper(), s, count=1) for a text m of two characters: the
\* first place where s holds m is rewritten
SubFirst(s, m) ==
    LET places == {i \in 1..(Len(s) - 1) : s[i] = m[1] /\ s[i + 1] = m[2]}
    IN IF places = {} THEN s
       ELSE LET i == CHOOSE i \in places : \A j \in places : i <= j
            IN SubSeq(s, 1, i - 1) \o <<UpperChar(m[2])>> \o SubSeq(s, i + 2, Len(s))

RECURSIVE SubMatches(_, _, _)
SubMatches(s, ms, n) ==
    IF n > Len(ms) THEN s ELSE SubMatches(SubFirst(s, ms[n]), ms, n + 1)

\* mutant: the underlines are removed, no character is put in upper case
RemoveUnderlineOnly(s) == SelectSeq(s, LAMBDA c : c # "_")

\* remove_underline_and_uppercase_next_character
RemoveUnderline(s) == SubMatches(s, UnderlineMatches(s, 1), 1)

Conventions == {"CamelCase", "lowerCamelCase", "snake_case", "Display Name"}

\* the name in snake_case, from the convention orig
ToSnakeCase(name, orig) ==
    CASE orig = "CamelCase" -> Lower(DropFirst(Strip(UnderlineUppers(name, 1))))
      [] orig = "lowerCamelCase" -> Lower(Strip(UnderlineUppers(name, 1)))
      [] orig = "Display Name" -> Replace(Lower(Strip(name)), " ", "_")
      [] orig = "snake_case" -> Lower(Strip(name))

ConvertNameToNamingConvention(name, orig, dest) ==
    LET snake == ToSnakeCase(name, orig) IN
    CASE dest = "snake_case" -> snake
      [] dest = "CamelCase" -> RemoveUnderline(Capitalize(snake))
      [] dest = "lowerCamelCase" -> RemoveUnderline(snake)
      [] dest = "Display Name" -> Title(Replace(snake, "_", " "))

\* The naming model: a name is converted from a convention to another one
\* and the result is converted back.
RECURSIVE Names(_)
Names(n) ==
    IF n = 0 THEN {<<>>}
    ELSE LET shorter == Names(n - 1)
         IN shorter \cup {Append(t, c) : t \in shorter, c \in NameChars}

NameInit ==
    /\ heap = <<>> /\ root = Scalar(1)
    /\ op = "idle" /\ out = <<>>
    /\ \E name \in Names(MaxNameLen) : arg = <<name>>
    /\ pc = "idle" /\ stack = <<>> /\ node = 0 /\ snap = <<>> /\ ki = 0
    /\ log = <<>>

Converted(name, orig, dest, there) ==
    /\ op' = "convert_name"
    /\ arg' = <<name, orig, dest>>
    /\ out' = [there |-> there,
               back |-> ConvertNameToNamingConvention(there, dest, orig)]

DoConvertName ==
    /\ op = "idle"
    /\ \E orig \in Conventions, dest \in Conventions :
          Converted(arg[1], orig, dest,
                    ConvertNameToNamingConvention(arg[1], orig, dest))
    /\ UNCHANGED <<heap, root, editVars>>

NameNext == DoConvertName

NameSpec == NameInit /\ [][NameNext]_vars

---------------------------------------------------------------------------
(* edit.  A dict keeps its entries in insertion order: an assignment to a  *)
(* key it holds keeps the place of the key, an assignment to a new key     *)
(* appends it, del takes the entry out.                                    *)

HasKey(es, key) == \E i \in 1..Len(es) : es[i].k = key

\* mutant: del removes the first entry, whatever its key
DictDelFirst(es, key) == Tail(es)

\* del json_struct[key]
DictDel(es, key) == SelectSeq(es, LAMBDA e : e.k # key)

\* mutant: an assignment moves the key to the end
DictSetAtEnd(es, key, val) == Append(DictDel(es, key), [k |-> key, val |-> val])

\* json_struct[new_key] = new_val
DictSet(es, key, val) ==
    IF HasKey(es, key)
    THEN [i \in 1..Len(es) |-> IF es[i].k = key THEN [k |-> key, val |-> val]
                                                ELSE es[i]]
    ELSE Append(es, [k |-> key, val |-> val])

\* the matchers handed to edit: the one of the tests (the key is "a" here,
\* 'c-a' there), one that takes every pair and one that takes none
Matchers == {"key", "every", "none"}

Matcher(m, key, val) ==
    CASE m = "key" -> key = KA
      [] m = "every" -> TRUE
      [] m = "none" -> FALSE

Suffix == <<"-", "n", "e", "w">>

Pair(key, val) == [k |-> key, val |-> val]

\* The converters handed to edit.  A converter is a generator: Converter
\* gives the pairs it yields, in order, and whether it raises after them.
\*   "test"     the converter of test_json_edit: asserts that the value is
\*              an int, then yields (k, v + 1) and (k + '-new', v + 2)
\*   "rename"   yields (k + '-new', v), as the converter of
\*              convert_keys_to_naming_convention yields (new name, v)
\*   "to_b"     yields ('b', v)
\*   "same"     yields (k, v)
\*   "twice"    yields (k, 2) and (k, 3)
\*   "nothing"  yields no pair
\*   "late"     yields (k, 7) and raises
Converters == {"test", "rename", "to_b", "same", "twice", "nothing", "late"}

\* convert_keys, the converter that convert_keys_to_naming_convention(_,
\* from_nc, dest_nc) hands to edit: it yields (the converted key, val)
ConvertKeys(from, dest) == from \o ">" \o dest

ConventionsOf(c) ==
    CHOOSE nc \in Conventions \X Conventions : ConvertKeys(nc[1], nc[2]) = c

Converter(c, key, val) ==
    CASE c = "test" ->
            IF IsRef(val) THEN [pairs |-> <<>>, raises |-> TRUE]
            ELSE [pairs |-> <<Pair(key, Scalar(val.v + 1)),
                              Pair(key \o Suffix, Scalar(val.v + 2))>>,
                  raises |-> FALSE]
      [] c = "rename" -> [pairs |-> <<Pair(key \o Suffix, val)>>, raises |-> FALSE]
      [] c = "to_b" -> [pairs |-> <<Pair(KB, val)>>, raises |-> FALSE]
      [] c = "same" -> [pairs |-> <<Pair(key, val)>>, raises |-> FALSE]
      [] c = "twice" -> [pairs |-> <<Pair(key, Scalar(2)), Pair(key, Scalar(3))>>,
                         raises |-> FALSE]
      [] c = "nothing" -> [pairs |-> <<>>, raises |-> FALSE]
      [] c = "late" -> [pairs |-> <<Pair(key, Scalar(7))>>, raises |-> TRUE]
      [] OTHER ->
            LET nc == ConventionsOf(c)
            IN [pairs |-> <<Pair(ConvertNameToNamingConvention(key, nc[1], nc[2]), val)>>,
                raises |-> FALSE]

RECURSIVE AssignSuffixed(_, _, _)
\* mutant: json_struct[new_key + '-new'] = new_val
AssignSuffixed(es, pairs, i) ==
    IF i > Len(pairs) THEN es
    ELSE AssignSuffixed(DictSet(es, pairs[i].k \o Suffix, pairs[i].val), pairs, i + 1)

RECURSIVE Assign(_, _, _)
\* for new_key, new_val in converter(key, val): json_struct[new_key] = new_val
Assign(es, pairs, i) ==
    IF i > Len(pairs) THEN es
    ELSE Assign(DictSet(es, pairs[i].k, pairs[i].val), pairs, i + 1)

\* mutant: the pairs are assigned first and the key deleted afterwards
EditPairDropLast(es, key, val, m, c, drop) ==
    IF ~Matcher(m, key, val) THEN [e |-> es, raised |-> FALSE]
    ELSE LET conv == Converter(c, key, val)
             set == Assign(es, conv.pairs, 1)
         IN [e |-> IF drop /\ ~conv.raises THEN DictDel(set, key) ELSE set,
             raised |-> conv.raises]

\* mutant: the pairs that the matcher rejects are edited as the others are
EditPairOfEvery(es, key, val, m, c, drop) ==
    IF drop /\ ~HasKey(es, key) THEN [e |-> es, raised |-> TRUE]
    ELSE LET conv == Converter(c, key, val)
             left == IF drop THEN DictDel(es, key) ELSE es
         IN [e |-> Assign(left, conv.pairs, 1), raised |-> conv.raises]

\* The body of the loop over the snapshot, for the pair (key, val) of the
\* snapshot, on the entries es of json_struct: the entries it leaves, and
\* whether it raised (del raises KeyError for a key that is not there, the
\* converter raises by itself).
EditPair(es, key, val, m, c, drop) ==
    IF ~Matcher(m, key, val) THEN [e |-> es, raised |-> FALSE]
    ELSE IF drop /\ ~HasKey(es, key) THEN [e |-> es, raised |-> TRUE]
    ELSE LET conv == Converter(c, key, val)
             left == IF drop THEN DictDel(es, key) ELSE es
         IN [e |-> Assign(left, conv.pairs, 1), raised |-> conv.raises]

\* The generator walk_structures(json_value) inside edit is suspended at a
\* yield while edit works on the dict it yielded.  Its state is the stack of
\* the frames of inner_walk_structures: the container of each frame and the
\* position in it of the value the frame takes next (0: a dict that has
\* still to be yielded).  The values of a dict are read when the generator
\* is resumed, after edit has changed the dict.
\* mutant: lists are yielded as dicts are
FrameOfYielded(h, x) == [id |-> x.v, i |-> 0]

Frame(h, x) == [id |-> x.v, i |-> IF IsDict(h, x) THEN 0 ELSE 1]

FirstStack(h, x) == IF IsRef(x) THEN <<Frame(h, x)>> ELSE <<>>

Pop(st) == SubSeq(st, 1, Len(st) - 1)

RECURSIVE ResumeLeavingYielded(_, _)
\* mutant: the walk does not come back to the dict it yielded, the values of
\* that dict are not enumerated
ResumeLeavingYielded(h, st) ==
    IF st = <<>> THEN [yielded |-> 0, stack |-> <<>>]
    ELSE LET top == st[Len(st)]
             on == [st EXCEPT ![Len(st)].i = top.i + 1]
         IN IF top.i = 0 THEN [yielded |-> top.id, stack |-> Pop(st)]
            ELSE IF top.i > Len(h[top.id].e) THEN ResumeLeavingYielded(h, Pop(st))
            ELSE LET x == h[top.id].e[top.i].val
                 IN IF IsRef(x) THEN ResumeLeavingYielded(h, Append(on, Frame(h, x)))
                    ELSE ResumeLeavingYielded(h, on)

RECURSIVE Resume(_, _)
\* next(generator): the dict it yields (0 when it is exhausted) and the
\* stack it is left with.  (The generator goes on from the one stack of
\* sts; a stack is handed on as a value, which keeps the evaluation of
\* ENABLED linear in the number of steps.)
ResumeFrom(h, sts) == CHOOSE r \in {Resume(h, st) : st \in sts} : TRUE

Resume(h, st) ==
    IF st = <<>> THEN [yielded |-> 0, stack |-> <<>>]
    ELSE LET top == st[Len(st)]
             on == [st EXCEPT ![Len(st)].i = top.i + 1]
         IN IF top.i = 0 THEN [yielded |-> top.id, stack |-> on]
            ELSE IF top.i > Len(h[top.id].e) THEN ResumeFrom(h, {Pop(st)})
            ELSE LET x == h[top.id].e[top.i].val
                 IN IF IsRef(x) THEN ResumeFrom(h, {Append(on, Frame(h, x))})
                    ELSE ResumeFrom(h, {on})

---------------------------------------------------------------------------
(* The edit model: edit applied to an input tree, one step for each        *)
(* iteration of its loops                                                  *)

EditInit ==
    /\ \E tr \in Trees(PlainKeys, MaxEditNodes) :
          LET r == AllocTree(<<>>, tr) IN heap = r.h /\ root = r.val
    /\ op = "idle" /\ arg = <<>> /\ out = <<>>
    /\ pc = "idle" /\ stack = <<>> /\ node = 0 /\ snap = <<>> /\ ki = 0
    /\ log = <<>>

\* edit(root, matcher, converter, drop) is called: walk_structures(root) is
\* created, nothing of it has run
EditCall ==
    /\ op = "idle"
    /\ \E m \in Matchers, c \in Converters, drop \in BOOLEAN :
          /\ op' = "edit" /\ arg' = <<m, c, drop>>
    /\ pc' = "walk" /\ stack' = FirstStack(heap, root)
    /\ UNCHANGED <<heap, root, out, node, snap, ki, log>>

\* for json_struct in walk_structures(json_value): the generator runs to its
\* next yield, and the snapshot list(json_struct.items()) is taken; an empty
\* snapshot leaves nothing to do in the dict
EditNextStruct ==
    /\ op = "edit" /\ pc = "walk"
    /\ LET r == Resume(heap, stack) IN
       IF r.yielded = 0
       THEN /\ pc' = "done" /\ stack' = <<>>
            /\ UNCHANGED <<node, snap, ki, log>>
       ELSE /\ stack' = r.stack
            /\ node' = r.yielded
            /\ snap' = heap[r.yielded].e
            /\ ki' = 1
            /\ log' = Append(log, r.yielded)
            /\ pc' = IF heap[r.yielded].e = <<>> THEN "walk" ELSE "keys"
    /\ UNCHANGED <<heap, root, op, arg, out>>

RECURSIVE RefsOf(_, _)
\* the containers among the values of the pairs, from the i-th pair
RefsOf(pairs, i) ==
    IF i > Len(pairs) THEN <<>>
    ELSE (IF IsRef(pairs[i].val) THEN <<pairs[i].val.v>> ELSE <<>>)
         \o RefsOf(pairs, i + 1)

\* the containers that json_struct[new_key] = new_val stores for the pair
\* (key, val) of the snapshot
Stored(es, key, val, m, c, drop) ==
    IF Matcher(m, key, val) /\ (drop => HasKey(es, key))
    THEN RefsOf(Converter(c, key, val).pairs, 1)
    ELSE <<>>

\* for key, val in list(json_struct.items()): one pair of the snapshot; out
\* keeps the containers that the converter has stored so far
EditKey ==
    /\ op = "edit" /\ pc = "keys"
    /\ LET r == EditPair(heap[node].e, snap[ki].k, snap[ki].val,
                         arg[1], arg[2], arg[3])
       IN /\ heap' = [heap EXCEPT ![node].e = r.e]
          /\ IF r.raised
             THEN pc' = "failed" /\ ki' = ki
             ELSE /\ ki' = ki + 1
                  /\ pc' = IF ki = Len(snap) THEN "walk" ELSE "keys"
    /\ out' = out \o Stored(heap[node].e, snap[ki].k, snap[ki].val,
                            arg[1], arg[2], arg[3])
    /\ UNCHANGED <<root, op, arg, stack, node, snap, log>>

EditNext == EditCall \/ EditNextStruct \/ EditKey

EditSpec == EditInit /\ [][EditNext]_vars

\* Edit run to its end.  The caller may also hand a converter that builds a
\* new dict: "nest" yields (k, {k: v}).  Each dict that the walk goes into
\* adds a frame of inner_walk_structures to the stack of the interpreter,
\* which raises RecursionError beyond its limit (1000 frames by default, a
\* few here; the input trees are less deep than the limit).
RecursionLimit == MaxLiveNodes + 2

EditLiveInit ==
    /\ \E tr \in Trees(PlainKeys, MaxLiveNodes) :
          LET r == AllocTree(<<>>, tr) IN heap = r.h /\ root = r.val
    /\ op = "idle" /\ arg = <<>> /\ out = <<>>
    /\ pc = "idle" /\ stack = <<>> /\ node = 0 /\ snap = <<>> /\ ki = 0
    /\ log = <<>>

EditCallAny ==
    /\ op = "idle"
    /\ \E m \in Matchers, c \in Converters \cup {"nest"}, drop \in BOOLEAN :
          /\ op' = "edit" /\ arg' = <<m, c, drop>>
    /\ pc' = "walk" /\ stack' = FirstStack(heap, root)
    /\ UNCHANGED <<heap, root, out, node, snap, ki, log>>

\* the walk resumed has come to r: RecursionError beyond the limit, else as
\* in EditNextStruct
Resumed(r) ==
    IF Len(r.stack) > RecursionLimit
    THEN /\ pc' = "failed"
         /\ UNCHANGED <<stack, node, snap, ki, log>>
    ELSE IF r.yielded = 0
    THEN /\ pc' = "done" /\ stack' = <<>>
         /\ UNCHANGED <<node, snap, ki, log>>
    ELSE /\ stack' = r.stack
         /\ node' = r.yielded
         /\ snap' = heap[r.yielded].e
         /\ ki' = 1
         /\ log' = Append(log, r.yielded)
         /\ pc' = IF heap[r.yielded].e = <<>> THEN "walk" ELSE "keys"

\* next(generator), in an interpreter with a limit on the depth of calls
EditNextStructLimited ==
    /\ op = "edit" /\ pc = "walk"
    /\ Resumed(Resume(heap, stack))
    /\ UNCHANGED <<heap, root, op, arg, out>>

\* mutant: the loop over the snapshot does not move on to its next pair
EditKeyStaying ==
    /\ op = "edit" /\ pc = "keys" /\ arg[2] # "nest"
    /\ heap' = [heap EXCEPT ![node].e =
                   EditPair(@, snap[ki].k, snap[ki].val, arg[1], arg[2], arg[3]).e]
    /\ UNCHANGED <<root, op, arg, out, pc, stack, node, snap, ki, log>>

\* one pair of the snapshot with a converter of Converters
EditKeyOfOld == op = "edit" /\ arg[2] # "nest" /\ EditKey

\* one pair of the snapshot with the converter "nest": the new dict
\* {key: val} is built and stored at key
EditKeyOfNest ==
    /\ op = "edit" /\ pc = "keys" /\ arg[2] = "nest"
    /\ LET key == snap[ki].k
           val == snap[ki].val
           new == Len(heap) + 1
       IN IF ~Matcher(arg[1], key, val)
          THEN /\ ki' = ki + 1
               /\ pc' = IF ki = Len(snap) THEN "walk" ELSE "keys"
               /\ UNCHANGED <<heap, out>>
          ELSE IF arg[3] /\ ~HasKey(heap[node].e, key)
          THEN pc' = "failed" /\ UNCHANGED <<heap, out, ki>>
          ELSE /\ heap' = Append(
                         [heap EXCEPT ![node].e =
                             DictSet(IF arg[3] THEN DictDel(@, key) ELSE @,
                                     key, Ref(new))],
                         [t |-> "o", e |-> <<Pair(key, val)>>])
               /\ out' = Append(out, new)
               /\ ki' = ki + 1
               /\ pc' = IF ki = Len(snap) THEN "walk" ELSE "keys"
    /\ UNCHANGED <<root, op, arg, stack, node, snap, log>>

\* a step of edit once it is called
EditRuns ==
    \/ EditNextStructLimited
    \/ EditKeyOfOld
    \/ EditKeyOfNest

EditLiveNext == EditCallAny \/ EditRuns

\* edit is the only thread: once called it runs on, one iteration after the
\* other, until it returns or raises
EditLiveSpec == EditLiveInit /\ [][EditLiveNext]_vars /\ WF_vars(EditRuns)

---------------------------------------------------------------------------
(* edit, apply_mapping and convert_keys_to_naming_convention run from the  *)
(* call to the return.  A run gives the heap it leaves, what it raised ("" *)
(* when it returned) and the calls it made of the functions it was handed. *)

RECURSIVE EditKeys(_, _, _, _, _, _), EditWalk(_, _, _, _, _)
\* the loop of edit over the snapshot sn of the dict id, from its i-th pair
EditKeys(h, id, sn, i, a, calls) ==
    IF i > Len(sn) THEN [h |-> h, raised |-> "", calls |-> calls]
    ELSE LET r == EditPair(h[id].e, sn[i].k, sn[i].val, a[1], a[2], a[3])
             h2 == [h EXCEPT ![id].e = r.e]
             calls2 == IF Matcher(a[1], sn[i].k, sn[i].val)
                       THEN Append(calls, <<id, sn[i].k>>) ELSE calls
         IN IF r.raised THEN [h |-> h2, raised |-> "Error", calls |-> calls2]
            ELSE EditKeys(h2, id, sn, i + 1, a, calls2)

\* the loop of edit over walk_structures, the generator being at st
EditWalk(h, st, a, log0, calls) ==
    LET r == Resume(h, st) IN
    IF r.yielded = 0 THEN [h |-> h, raised |-> "", calls |-> calls, log |-> log0]
    ELSE LET k == EditKeys(h, r.yielded, h[r.yielded].e, 1, a, calls)
         IN IF k.raised # ""
            THEN [h |-> k.h, raised |-> k.raised, calls |-> k.calls,
                  log |-> Append(log0, r.yielded)]
            ELSE EditWalk(k.h, r.stack, a, Append(log0, r.yielded), k.calls)

\* edit(x, matcher, converter, drop), a being <<matcher, converter, drop>>;
\* calls lists the calls of the converter
Edit(h, x, a) == EditWalk(h, FirstStack(h, x), a, <<>>, <<>>)

\* The functions of a mapping handed to apply_mapping:
\*   "inc"    lambda k, v: v + 1, as in the tests (TypeError for a container)
\*   "zero"   lambda k, v: 0
\*   "fail"   a function that raises
MapFunctions == {"inc", "zero", "fail"}

MapFunction(f, key, val) ==
    CASE f = "inc" -> IF IsRef(val) THEN [val |-> val, raised |-> "TypeError"]
                      ELSE [val |-> Scalar(val.v + 1), raised |-> ""]
      [] f = "zero" -> [val |-> Scalar(0), raised |-> ""]
      [] f = "fail" -> [val |-> val, raised |-> "Error"]

ValueOf(es, key) == es[CHOOSE i \in 1..Len(es) : es[i].k = key].val

RECURSIVE MapKeysOfAbsent(_, _, _, _, _)
\* mutant: the function of a key that the dict does not have is called too,
\* with None
MapKeysOfAbsent(h, id, mapping, i, calls) ==
    IF i > Len(mapping) THEN [h |-> h, raised |-> "", calls |-> calls]
    ELSE LET key == mapping[i].k
             val == IF HasKey(h[id].e, key) THEN ValueOf(h[id].e, key) ELSE Scalar(0)
             r == MapFunction(mapping[i].f, key, val)
             calls2 == Append(calls, <<id, key>>)
         IN IF r.raised # "" THEN [h |-> h, raised |-> r.raised, calls |-> calls2]
            ELSE MapKeysOfAbsent([h EXCEPT ![id].e = DictSet(@, key, r.val)],
                                 id, mapping, i + 1, calls2)

RECURSIVE MapKeys(_, _, _, _, _), MapWalk(_, _, _, _)
\* the loop of apply_mapping over the items of the mapping, from the i-th,
\* for the dict id
MapKeys(h, id, mapping, i, calls) ==
    IF i > Len(mapping) THEN [h |-> h, raised |-> "", calls |-> calls]
    ELSE LET key == mapping[i].k IN
         IF ~HasKey(h[id].e, key) THEN MapKeys(h, id, mapping, i + 1, calls)
         ELSE LET r == MapFunction(mapping[i].f, key, ValueOf(h[id].e, key))
                  calls2 == Append(calls, <<id, key>>)
              IN IF r.raised # "" THEN [h |-> h, raised |-> r.raised, calls |-> calls2]
                 ELSE MapKeys([h EXCEPT ![id].e = DictSet(@, key, r.val)],
                              id, mapping, i + 1, calls2)

\* the loop of apply_mapping over walk_structures, the generator being at st
MapWalk(h, st, mapping, calls) ==
    LET r == Resume(h, st) IN
    IF r.yielded = 0 THEN [h |-> h, raised |-> "", calls |-> calls]
    ELSE LET k == MapKeys(h, r.yielded, mapping, 1, calls)
         IN IF k.raised # "" THEN k ELSE MapWalk(k.h, r.stack, mapping, k.calls)

\* apply_mapping before one_or_many wraps it
ApplyMappingOne(h, x, mapping) == MapWalk(h, FirstStack(h, x), mapping, <<>>)

\* what a call leaves: the heap, the exception raised if any, and the calls
\* made of the functions handed over
Outcome(r) == [h |-> r.h, raised |-> r.raised, calls |-> r.calls]

\* mutant: the converted keys are added and the keys they come from are kept
ConvertKeysOneKeeping(h, x, nc) ==
    Outcome(Edit(h, x, <<"every", ConvertKeys(nc[1], nc[2]), FALSE>>))

\* convert_keys_to_naming_convention before one_or_many wraps it
ConvertKeysOne(h, x, nc) ==
    Outcome(Edit(h, x, <<"every", ConvertKeys(nc[1], nc[2]), TRUE>>))

\* func(json_content, *args) for the two functions that one_or_many wraps
Wrapped(func, h, x, a) ==
    CASE func = "apply_mapping" -> ApplyMappingOne(h, x, a)
      [] func = "convert_keys_to_naming_convention" -> ConvertKeysOne(h, x, a)

RECURSIVE OneOrManyItems(_, _, _, _, _, _), OneOrManyRest(_, _, _, _, _, _)
\* for json_item in json_content: func(json_item, *args), from the i-th item
OneOrManyItems(func, h, id, i, a, calls) ==
    IF i > Len(h[id].e) THEN [h |-> h, raised |-> "", calls |-> calls]
    ELSE OneOrManyRest(func, id, i, a, calls, Wrapped(func, h, h[id].e[i].val, a))

\* the loop after the call for the i-th item has left r
OneOrManyRest(func, id, i, a, calls, r) ==
    IF r.raised # ""
    THEN [h |-> r.h, raised |-> r.raised, calls |-> calls \o r.calls]
    ELSE OneOrManyItems(func, r.h, id, i + 1, a, calls \o r.calls)

\* mutant: the type of json_content is not looked at
OneOrManyUnchecked(func, h, x, a) ==
    IF IsList(h, x) THEN OneOrManyItems(func, h, x.v, 1, a, <<>>)
    ELSE Wrapped(func, h, x, a)

\* one_or_many(func)(json_content, *args)
OneOrMany(func, h, x, a) ==
    IF ~IsRef(x) THEN [h |-> h, raised |-> "TypeError", calls |-> <<>>]
    ELSE IF IsList(h, x) THEN OneOrManyItems(func, h, x.v, 1, a, <<>>)
    ELSE Wrapped(func, h, x, a)

ApplyMapping(h, x, mapping) == OneOrMany("apply_mapping", h, x, mapping)

ConvertKeysToNamingConvention(h, x, from, dest) ==
    OneOrMany("convert_keys_to_naming_convention", h, x, <<from, dest>>)

---------------------------------------------------------------------------
(* unflatten.  The pairs are those of flatten: [path |-> _, val |-> _],    *)
(* the values being scalars or containers of the heap.  The dicts and the  *)
(* list that unflatten builds are added to the heap.                       *)

\* in_path.startswith(prefix)
StartsWith(s, p) == Len(p) <= Len(s) /\ SubSeq(s, 1, Len(p)) = p

\* values[in_index][in_key] = in_value if in_index < len(values), else
\* values.append({in_key: in_value}); values holds the entries of its dicts
Populate(values, index, key, val) ==
    IF index < Len(values)
    THEN [values EXCEPT ![index + 1] = DictSet(@, key, val)]
    ELSE Append(values, <<Pair(key, val)>>)

\* what unflatten_ yields: a tuple (key, value), or a dict of values
TupleItem(key, val) == [tuple |-> TRUE, k |-> key, val |-> val, e |-> <<>>]
DictItem(es) == [tuple |-> FALSE, k |-> <<>>, val |-> Scalar(0), e |-> es]

RECURSIVE UnflattenLoop(_, _, _), UnflattenLoopStep(_, _, _, _)
\* while remaining: ..., with the prefix of the first pair
UnflattenLoop(prefix, values, remaining) ==
    IF remaining = <<>> THEN [values |-> values, remaining |-> <<>>]
    ELSE IF ~StartsWith(remaining[1].path, prefix)
    THEN [values |-> values, remaining |-> remaining]
    ELSE UnflattenLoopStep(prefix, values, remaining,
                           DecomposeFlattenPath(remaining[1].path))

\* the rest of an iteration, in being the decomposition of in_path
UnflattenLoopStep(prefix, values, remaining, in) ==
    IF ~in.index.some THEN UnflattenLoop(prefix, values, Tail(remaining))
    ELSE UnflattenLoop(prefix,
                       Populate(values, in.index.n, in.key, remaining[1].val),
                       Tail(remaining))

RECURSIVE Unflatten_(_, _), UnflattenFirst(_, _, _), UnflattenYield(_, _, _, _)
\* unflatten_(*path_val_pairs, is_list): the items it yields
Unflatten_(pairs, isList) ==
    UnflattenFirst(pairs, isList, DecomposeFlattenPath(pairs[1].path))

\* d being the decomposition of the first path
UnflattenFirst(pairs, isList, d) ==
    UnflattenYield(d.key, pairs[1].val, isList,
                   UnflattenLoop(d.prefix,
                                 IF d.index.some THEN <<<<Pair(d.key, pairs[1].val)>>>>
                                 ELSE <<>>,
                                 Tail(pairs)))

\* the yields after the loop has left r
UnflattenYield(key, value, isList, r) ==
    (IF isList THEN [i \in 1..Len(r.values) |-> DictItem(r.values[i])]
     ELSE <<TupleItem(key, value)>>)
    \o (IF r.remaining # <<>> THEN Unflatten_(r.remaining, FALSE) ELSE <<>>)

RECURSIVE DictOfItems(_, _, _)
\* dict(items), from the i-th item
DictOfItems(es, items, i) ==
    IF i > Len(items) THEN es
    ELSE DictOfItems(DictSet(es, items[i].k, items[i].val), items, i + 1)

\* the dict that the list of the result gets for an item
ResultDict(item) ==
    [t |-> "o", e |-> IF item.tuple THEN <<Pair(item.k, item.val)>> ELSE item.e]

\* the heap and the value once the items are made the dict or the list
UnflattenResult(h, isList, items) ==
    LET id == Len(h) + 1 IN
    IF ~isList
    THEN [h |-> Append(h, [t |-> "o", e |-> DictOfItems(<<>>, items, 1)]),
          val |-> Ref(id), raised |-> ""]
    ELSE [h |-> Append(h, [t |-> "a",
                           e |-> [i \in 1..Len(items) |-> Pair(<<>>, Ref(id + i))]])
                \o [i \in 1..Len(items) |-> ResultDict(items[i])],
          val |-> Ref(id), raised |-> ""]

\* unflatten(*pairs)
Unflatten(h, pairs) ==
    IF pairs = <<>> THEN [h |-> h, val |-> Scalar(0), raised |-> "ValueError"]
    ELSE UnflattenResult(h, DecomposeFlattenPath(pairs[1].path).index.some,
                         Unflatten_(pairs, DecomposeFlattenPath(pairs[1].path).index.some))

---------------------------------------------------------------------------
(* The unflatten model: unflatten applied to the pairs of flatten(root)    *)

KAB == <<"a", "b">>

\* the key sets of the input trees: the plain keys, or "a" and "ab"
UnflattenKeyFamilies == {PlainKeys, {KA, KAB}}

UnflattenInit ==
    /\ \E tr \in UNION {Trees(ks, MaxUnflattenNodes) : ks \in UnflattenKeyFamilies} :
          LET r == AllocTree(<<>>, tr) IN heap = r.h /\ root = r.val
    /\ op = "idle" /\ arg = <<>> /\ out = <<>>
    /\ pc = "idle" /\ stack = <<>> /\ node = 0 /\ snap = <<>> /\ ki = 0
    /\ log = <<>>

\* the state after unflatten(*pairs) has left r
Unflattened(pairs, r) ==
    /\ op' = "unflatten"
    /\ arg' = pairs
    /\ heap' = r.h
    /\ out' = [val |-> r.val, raised |-> r.raised]
    /\ UNCHANGED <<root, editVars>>

\* unflatten(*flatten(root))
DoUnflatten ==
    /\ op = "idle"
    /\ Unflattened(Flatten(heap, root, <<>>),
                   Unflatten(heap, Flatten(heap, root, <<>>)))

UnflattenNext == DoUnflatten

UnflattenSpec == UnflattenInit /\ [][UnflattenNext]_vars

---------------------------------------------------------------------------
(* The run model: apply_mapping, convert_keys_to_naming_convention and     *)
(* edit applied to an input tree, each call one step.  arg keeps, with the *)
(* arguments, the heap as it was when the call was made.                   *)

KC == <<"c">>
KSnake == <<"a", "_", "b">>
KCamel == <<"A", "B">>
KLowerCamel == <<"a", "B">>
KDisplay == <<"A", " ", "B">>
KUpperB == <<"B">>

\* the key sets of the input trees: plain keys, two keys in each naming
\* convention, and a key in snake_case with the key it becomes in CamelCase
RunKeyFamilies ==
    { PlainKeys, {KSnake, KB}, {KCamel, KUpperB}, {KLowerCamel, KB},
      {KDisplay, KUpperB}, {KSnake, KCamel} }

MapItem(key, f) == [k |-> key, f |-> f]

\* the mappings handed to apply_mapping; no input tree has the key c
Mappings ==
    { <<MapItem(KA, "inc")>>,
      <<MapItem(KA, "zero")>>,
      <<MapItem(KA, "inc"), MapItem(KB, "zero")>>,
      <<MapItem(KA, "inc"), MapItem(KC, "fail")>>,
      <<MapItem(KB, "fail")>> }

RunInit ==
    /\ \E tr \in UNION {Trees(ks, MaxRunNodes) : ks \in RunKeyFamilies} :
          LET r == AllocTree(<<>>, tr) IN heap = r.h /\ root = r.val
    /\ op = "idle" /\ arg = <<>> /\ out = <<>>
    /\ pc = "idle" /\ stack = <<>> /\ node = 0 /\ snap = <<>> /\ ki = 0
    /\ log = <<>>

\* the state after a call with the arguments args that has left r
Returned(name, args, r) ==
    /\ op' = name
    /\ arg' = [args |-> args, before |-> heap]
    /\ heap' = r.h
    /\ out' = [raised |-> r.raised, calls |-> r.calls]
    /\ UNCHANGED <<root, editVars>>

\* apply_mapping(root, mapping)
DoApplyMapping ==
    /\ op = "idle"
    /\ \E mapping \in Mappings :
          Returned("apply_mapping", <<mapping>>, ApplyMapping(heap, root, mapping))

\* convert_keys_to_naming_convention(root, from_nc, dest_nc)
DoConvertKeys ==
    /\ op = "idle"
    /\ \E from \in Conventions, dest \in Conventions :
          Returned("convert_keys", <<from, dest>>,
                   ConvertKeysToNamingConvention(heap, root, from, dest))

RunNext == DoApplyMapping \/ DoConvertKeys

RunSpec == RunInit /\ [][RunNext]_vars

---------------------------------------------------------------------------
(* The rerun model: edit called on an input tree, each call one step, then *)
(* called a second time on the tree it left, or called on an equal tree    *)
(* with the other value of drop.  arg keeps the arguments, the heap before *)
(* the first call and, after the second, the heap that the first left.     *)

\* the state after the first call, which has left r
EditReturned(args, r) ==
    /\ op' = "edit_once"
    /\ arg' = [args |-> args, before |-> heap]
    /\ heap' = r.h
    /\ out' = [raised |-> r.raised, calls |-> r.calls]
    /\ UNCHANGED <<root, editVars>>

\* the state after a second call, which has left r
EditReturnedAgain(name, r) ==
    /\ op' = name
    /\ arg' = [args |-> arg.args, before |-> arg.before, once |-> heap,
               raised |-> out.raised]
    /\ heap' = r.h
    /\ out' = [raised |-> r.raised, calls |-> r.calls]
    /\ UNCHANGED <<root, editVars>>

\* edit(root, matcher, converter, drop)
DoEdit ==
    /\ op = "idle"
    /\ \E m \in Matchers, c \in Converters, drop \in BOOLEAN :
          EditReturned(<<m, c, drop>>, Edit(heap, root, <<m, c, drop>>))

\* edit(root, matcher, converter, drop) once more, on the tree that the
\* first call left
DoEditAgain ==
    /\ op = "edit_once"
    /\ EditReturnedAgain("edit_twice", Edit(heap, root, arg.args))

\* edit(copy, matcher, converter, not drop), copy being equal to the tree
\* that the first call was given
DoEditOther ==
    /\ op = "edit_once"
    /\ EditReturnedAgain("edit_other",
                         Edit(arg.before, root, <<arg.args[1], arg.args[2], ~arg.args[3]>>))

RerunNext == DoEdit \/ DoEditAgain \/ DoEditOther

RerunInit ==
    /\ \E tr \in Trees(PlainKeys, MaxRerunNodes) :
          LET r == AllocTree(<<>>, tr) IN heap = r.h /\ root = r.val
    /\ op = "idle" /\ arg = <<>> /\ out = <<>>
    /\ pc = "idle" /\ stack = <<>> /\ node = 0 /\ snap = <<>> /\ ki = 0
    /\ log = <<>>

RerunSpec == RerunInit /\ [][RerunNext]_vars

\* The frame model: edit called once on a dict whose dicts have up to three
\* keys, so that a dict can hold two entries that the call leaves alone
\* beside one that it edits.
FrameKeys == {KA, KB, KC}

FrameInit ==
    /\ \E tr \in Trees(FrameKeys, MaxFrameNodes) :
          LET r == AllocTree(<<>>, tr)
          IN heap = r.h /\ root = r.val /\ IsDict(r.h, r.val)
    /\ op = "idle" /\ arg = <<>> /\ out = <<>>
    /\ pc = "idle" /\ stack = <<>> /\ node = 0 /\ snap = <<>> /\ ki = 0
    /\ log = <<>>

FrameNext == DoEdit

FrameSpec == FrameInit /\ [][FrameNext]_vars

---------------------------------------------------------------------------
(* Routes: the places of a tree, independently of flatten and of           *)
(* walk_structures.  A route is the sequence of entry positions (from 1)   *)
(* followed from the root; routes are compared in pre-order, a place       *)
(* before the places below it and before the places of later entries.      *)

RECURSIVE RoutesFrom(_, _)
RoutesFrom(h, x) ==
    IF IsRef(x)
    THEN {<<>>} \cup UNION {
             {<<i>> \o r : r \in RoutesFrom(h, h[x.v].e[i].val)}
             : i \in 1..Len(h[x.v].e) }
    ELSE {<<>>}

Routes == RoutesFrom(heap, root)

RECURSIVE ValAt(_, _, _)
ValAt(h, x, r) ==
    IF r = <<>> THEN x ELSE ValAt(h, h[x.v].e[r[1]].val, Tail(r))

Front(r) == SubSeq(r, 1, Len(r) - 1)

\* the container that holds the place r, and the entry of r in it
Holder(r) == heap[ValAt(heap, root, Front(r)).v]
EntryOf(r) == Holder(r).e[r[Len(r)]]

\* the places that are entries of a dict, and those that are elements of a list
EntryRoutes == {r \in Routes : r # <<>> /\ Holder(r).t = "o"}
ElementRoutes == {r \in Routes : r # <<>> /\ Holder(r).t = "a"}
\* the places that hold a dict
DictRoutes == {r \in Routes : IsDict(heap, ValAt(heap, root, r))}

IsPrefixOf(r, s) == Len(r) <= Len(s) /\ SubSeq(s, 1, Len(r)) = r

PreOrderBefore(r, s) ==
    /\ r # s
    /\ \/ IsPrefixOf(r, s)
       \/ \E j \in 1..Len(r) :
             /\ j <= Len(s)
             /\ SubSeq(r, 1, j - 1) = SubSeq(s, 1, j - 1)
             /\ r[j] < s[j]

\* position of r among the places S, in pre-order
Rank(S, r) == Cardinality({s \in S : PreOrderBefore(s, r)}) + 1

\* the flattened path of a place as the documentation gives it: '/' between a
\* parent path and a key, the key alone under an empty parent path, '[i]'
\* after the parent path for the i-th element of a list
RECURSIVE RelPath(_, _)
\* the path of the place r counted from the place r0 above it
RelPath(r0, r) ==
    IF r = r0 THEN <<>>
    ELSE LET pp == RelPath(r0, Front(r)) IN
         IF Holder(r).t = "o"
         THEN (IF pp = <<>> THEN EntryOf(r).k ELSE pp \o <<"/">> \o EntryOf(r).k)
         ELSE pp \o <<"[">> \o IntToStr(r[Len(r)] - 1) \o <<"]">>

PathOf(r) == RelPath(<<>>, r)

\* number of dict-to-child descents on the route r
DepthOf(r) ==
    Cardinality({j \in 1..Len(r) : heap[ValAt(heap, root, SubSeq(r, 1, j - 1)).v].t = "o"})

\* the place of the container id (an input tree holds it once)
RouteOfId(id) == CHOOSE r \in Routes : ValAt(heap, root, r) = Ref(id)

\* s ends in '[i]', i one or more digits
EndsInIndex(s) ==
    /\ Len(s) >= 3
    /\ s[Len(s)] = "]"
    /\ \E j \in 1..(Len(s) - 2) :
          s[j] = "[" /\ \A n \in (j + 1)..(Len(s) - 1) : IsDigit(s[n])

IsPlainKey(k) == \A n \in 1..Len(k) : IsKeyChar(k[n])

(* The strings of a pattern, independently of the order in which re tries  *)
(* the ways to match: Ends is the set of positions where a match of items  *)
(* that starts at one of the positions starts can end.                     *)
RECURSIVE Ends(_, _, _)
Ends(items, s, starts) ==
    IF items = <<>> THEN starts
    ELSE LET it == Head(items)
             after ==
                 CASE it.t = "lit" ->
                         {q + 1 : q \in {q \in starts : q <= Len(s) /\ s[q] = it.c}}
                   [] it.t = "dotstar" ->
                         {q \in 1..(Len(s) + 1) : \E q0 \in starts : q0 <= q}
                   [] it.t \in {"cap", "grp"} -> Ends(it.sub, s, starts)
                   [] it.t = "opt" -> starts \cup Ends(it.sub, s, starts)
         IN Ends(Tail(items), s, after)

\* the whole of s is a string of the pattern
InLanguage(items, s) == (Len(s) + 1) \in Ends(items, s, {1})

\* s after its last '/'
AfterLastSlash(s) ==
    LET slashes == {n \in 1..Len(s) : s[n] = "/"}
        last == CHOOSE n \in slashes : \A m \in slashes : m <= n
    IN SubSeq(s, last + 1, Len(s))

---------------------------------------------------------------------------
(* flatten *)

\* C3: flatten(root) yields its pairs in pre-order: the pair of every dict
\* entry stands at the pre-order position of the entry among the dict entries
\* (keys in insertion order, a value's subtree before the next sibling key, a
\* composite before its descendants), and carries the path parentPath '/' key
\* (the key alone under an empty parentPath, '[i]' for the i-th element of a
\* list on the way) and the value of the entry.
C3_FlattenPreOrder ==
    op = "flatten" =>
        \A r \in EntryRoutes :
            /\ Rank(EntryRoutes, r) <= Len(out)
            /\ out[Rank(EntryRoutes, r)] =
                   [path |-> PathOf(r), val |-> ValAt(heap, root, r)]

\* a dict whose first value is a dict with an entry and which has a second key,
\* the third pair being that of the second key
C3_Witness ==
    /\ op = "flatten"
    /\ {<<1>>, <<1, 1>>, <<2>>} \subseteq EntryRoutes
    /\ Len(out) = 3
    /\ out[2].path = out[1].path \o <<"/">> \o EntryOf(<<1, 1>>).k
    /\ out[3].path = EntryOf(<<2>>).k

\* a list on the way: the pair of an entry of a dict that is an element of a list
C3_WitnessList ==
    /\ op = "flatten"
    /\ \E r \in EntryRoutes :
          /\ Len(r) = 3
          /\ Front(r) \in ElementRoutes
          /\ out[Rank(EntryRoutes, r)].path =
                 EntryOf(<<r[1]>>).k \o <<"[", "0", "]", "/">> \o EntryOf(r).k

\* the pairs are those of the dict entries, one each
PairsAreEntries ==
    /\ Len(out) = Cardinality(EntryRoutes)
    /\ \A i \in 1..Len(out) :
          \E r \in EntryRoutes :
              /\ Rank(EntryRoutes, r) = i
              /\ out[i].val = ValAt(heap, root, r)

\* C4 as stated: flatten(root) yields exactly one pair for each dict entry
\* reachable from root and none for an element of a list, and no yielded path
\* ends in '[i]'.
C4_NoPathEndsInIndex ==
    op = "flatten" =>
        /\ PairsAreEntries
        /\ \A i \in 1..Len(out) : ~EndsInIndex(out[i].path)

\* C4 amended: flatten(root) yields exactly one pair for each dict entry
\* reachable from root and none for an element of a list (a scalar element
\* yields nothing, a container element only the pairs below it); a yielded path
\* ends in '[i]' only when the key of its own entry ends in '[i]'.
C4_OnePairPerEntry ==
    op = "flatten" =>
        /\ PairsAreEntries
        /\ \A r \in EntryRoutes :
              EndsInIndex(out[Rank(EntryRoutes, r)].path) => EndsInIndex(EntryOf(r).k)

\* a list with a scalar element and a dict element: only the entry of the dict
\* element is yielded, besides the entry that holds the list
C4_Witness ==
    /\ op = "flatten"
    /\ \E r, q \in ElementRoutes :
          /\ Front(r) = Front(q)
          /\ ~IsRef(ValAt(heap, root, r))
          /\ IsDict(heap, ValAt(heap, root, q))
    /\ Len(out) = Cardinality(EntryRoutes)
    /\ Len(out) > 0

---------------------------------------------------------------------------
(* walk_structures *)

\* C5: for d >= 0, walk_structures(root, max_depth=d) yields, in the same
\* order, the dicts of walk_structures(root, max_depth=-1) that lie at most d
\* dict-to-child descents below root, a list on the way adding nothing;
\* max_depth=-1 yields every dict.
C5_WalkDepth ==
    op = "walk" =>
        IF arg[1] >= 0
        THEN out = SelectSeq(WalkStructures(heap, root, -1),
                             LAMBDA id : DepthOf(RouteOfId(id)) <= arg[1])
        ELSE Len(out) = Cardinality(DictRoutes)

\* a dict reached through a list is kept at the depth of the list, and a
\* deeper dict is cut
C5_Witness ==
    /\ op = "walk"
    /\ arg[1] = 1
    /\ IsDict(heap, root)
    /\ \E r \in DictRoutes :
          /\ Len(r) = 2
          /\ Holder(r).t = "a"
          /\ DepthOf(r) = 1
          /\ \E i \in 1..Len(out) : Ref(out[i]) = ValAt(heap, root, r)
    /\ Len(out) < Cardinality(DictRoutes)

\* C6: walk_structures(root) without limit yields every dict reachable from
\* root exactly once and nothing else, in pre-order (a dict before the dicts
\* inside it, values in insertion order, elements in index order); root comes
\* first when it is a dict, and nothing is yielded for a scalar or a list of
\* scalars.
C6_WalkAll ==
    (op = "walk" /\ arg[1] = -1) =>
        /\ Len(out) = Cardinality(DictRoutes)
        /\ \A r \in DictRoutes : out[Rank(DictRoutes, r)] = ValAt(heap, root, r).v
        /\ \A i \in 1..Len(out) : heap[out[i]].t = "o"
        /\ \A i, j \in 1..Len(out) : i # j => out[i] # out[j]
        /\ IsDict(heap, root) => (Len(out) >= 1 /\ out[1] = root.v)
        /\ (~IsRef(root) \/ (IsList(heap, root) /\
                \A i \in 1..Len(heap[root.v].e) : ~IsRef(heap[root.v].e[i].val)))
               => out = <<>>

\* a dict root with a dict under its first key, a dict below that one, and a
\* dict under its second key: the nested dict comes before the second child
C6_Witness ==
    /\ op = "walk" /\ arg[1] = -1
    /\ {<<>>, <<1>>, <<1, 1>>, <<2>>} \subseteq DictRoutes
    /\ Len(out) = 4
    /\ out[3] = ValAt(heap, root, <<1, 1>>).v
    /\ out[4] = ValAt(heap, root, <<2>>).v

\* a list of scalars yields nothing
C6_WitnessScalars ==
    /\ op = "walk" /\ arg[1] = -1
    /\ IsList(heap, root)
    /\ Len(heap[root.v].e) >= 2
    /\ out = <<>>

---------------------------------------------------------------------------
(* decompose_flatten_path *)

\* C9: decompose("c[3]") returns prefix "c", index 3, key "c", and
\* decompose("c[3]/c-c/c-c-c") returns prefix "c[3]/c-c", index None, key
\* "c-c-c".
C9_DocExamples ==
    (op = "decompose" /\ arg[1] = 0) =>
        /\ arg[2] = PathC3 =>
              /\ out.prefix = <<"c">>
              /\ out.index = Some(3)
              /\ out.key = <<"c">>
        /\ arg[2] = PathC3CC =>
              /\ out.prefix = <<"c", "[", "3", "]", "/", "c", "-", "c">>
              /\ out.index = None
              /\ out.key = <<"c", "-", "c", "-", "c">>

\* the dict entry whose pair is the i-th of flatten(root)
EntryAt(i) == CHOOSE r \in EntryRoutes : Rank(EntryRoutes, r) = i

\* C10 as stated: for every path produced by flatten(root), decompose(path)
\* does not fail and returns as key the key of the dict entry the path
\* addresses.
C10_KeyOfEveryPath ==
    (op = "decompose" /\ arg[1] > 0) =>
        /\ out.raised = ""
        /\ out.key = EntryOf(EntryAt(arg[1])).k

\* C10 amended: for every path produced by flatten(root), decompose(path) does
\* not fail, and it returns as key the key of the dict entry the path
\* addresses whenever that key holds none of '/', '[' and ']'.
C10_KeyOfPlainKeyPath ==
    (op = "decompose" /\ arg[1] > 0) =>
        /\ out.raised = ""
        /\ IsPlainKey(EntryOf(EntryAt(arg[1])).k) =>
              out.key = EntryOf(EntryAt(arg[1])).k

\* the path of an entry of a dict that is an element of a list
C10_Witness ==
    /\ op = "decompose"
    /\ arg[1] > 0
    /\ arg[2] = <<"a", "[", "0", "]", "/", "b">>
    /\ out.raised = ""
    /\ out.key = <<"b">>

\* every key of the tree is free of '/', '[' and ']'
PlainTree == \A r \in EntryRoutes : IsPlainKey(EntryOf(r).k)

\* the list whose element the i-th pair of flatten(root) has as value (the
\* root for i = 0)
ListAt(i) == IF i = 0 THEN <<>> ELSE EntryAt(i)

C11_WitnessElement ==
    /\ op = "decompose" /\ arg[1] > 0 /\ PlainTree
    /\ arg[2] = <<"a", "[", "0", "]", "/", "b">>
    /\ out.prefix = <<"a">>

\* C12 as stated: decompose(path) returns an index if and only if the final
\* component of path is an element of a list and not an entry of a dict.
C12_IndexIffElement ==
    /\ (op = "decompose" /\ arg[1] > 0 /\ PlainTree) => out.index = None
    /\ (op = "decompose_element" /\ PlainTree) => out.index = Some(arg[3])

\* C12 amended: in a tree whose keys hold none of '/', '[' and ']',
\* decompose(path) returns the index i for the path of the i-th element of a
\* list and for the path of an entry of a dict that is the i-th element of a
\* list; it returns None for the path of any other entry.
C12_IndexOfPath ==
    /\ (op = "decompose" /\ arg[1] > 0 /\ PlainTree) =>
          LET r == EntryAt(arg[1])
              h == Front(r)
          IN IF h \in ElementRoutes
             THEN out.index = Some(h[Len(h)] - 1)
             ELSE out.index = None
    /\ (op = "decompose_element" /\ PlainTree) => out.index = Some(arg[3])

\* [1]/a, an entry of the second element of the root: the index is 1
C12_Witness ==
    /\ op = "decompose" /\ arg[1] > 0 /\ PlainTree
    /\ arg[2] = <<"[", "1", "]", "/", "a">>
    /\ out.index = Some(1)

\* a[0], the first element of the list a: the index is 0, the key is empty
C12_WitnessElement ==
    /\ op = "decompose_element"
    /\ arg[2] = <<"a", "[", "0", "]">>
    /\ out.index = Some(0)
    /\ out.key = <<>>

RECURSIVE InGrammarFrom(_, _, _)
\* p from position i on continues a string of the grammar
\* segment(/segment)*, a segment being one or more characters other than
\* '/', '[' and ']' followed by any number of '[' digits ']'; q tells what came
\* before: "start" (a segment has to start), "key" (inside a segment), "open"
\* (after '['), "digits" (inside an index), "closed" (after ']')
InGrammarFrom(p, i, q) ==
    IF i > Len(p) THEN q \in {"key", "closed"}
    ELSE LET c == p[i] IN
         CASE q = "start" -> IsKeyChar(c) /\ InGrammarFrom(p, i + 1, "key")
           [] q = "key" ->
                \/ IsKeyChar(c) /\ InGrammarFrom(p, i + 1, "key")
                \/ c = "/" /\ InGrammarFrom(p, i + 1, "start")
                \/ c = "[" /\ InGrammarFrom(p, i + 1, "open")
           [] q = "open" -> IsDigit(c) /\ InGrammarFrom(p, i + 1, "digits")
           [] q = "digits" ->
                \/ IsDigit(c) /\ InGrammarFrom(p, i + 1, "digits")
                \/ c = "]" /\ InGrammarFrom(p, i + 1, "closed")
           [] q = "closed" ->
                \/ c = "/" /\ InGrammarFrom(p, i + 1, "start")
                \/ c = "[" /\ InGrammarFrom(p, i + 1, "open")

InGrammar(p) == InGrammarFrom(p, 1, "start")

\* C13: decompose fails with ValueError for every string that is not a
\* flattened path, that does not end in 'segment' or 'segment[index]'.
C13_InvalidPathRaises ==
    (op = "decompose_text" /\ ~InGrammar(arg[1])) => out.raised = "ValueError"

---------------------------------------------------------------------------
(* query_keys *)

\* what the last capturing group of each pattern of the model holds after a
\* full match of path (NoText: the group took no part in the match), and the
\* whole path for a pattern without capturing group
ExpectedKey(pattern, path) ==
    CASE pattern = PatSlashCapA -> Text(<<"a">>)
      [] pattern = PatTwoCaps -> Text(AfterLastSlash(path))
      [] pattern = PatOptPrefixCapB -> Text(<<"b">>)
      [] pattern = PatAOptCap -> IF path = <<"a">> THEN NoText ELSE Text(<<"/", "b">>)
      [] OTHER -> Text(path)

\* the dict entries whose whole path is a string of the pattern
Matched(pattern) == {r \in EntryRoutes : InLanguage(pattern, PathOf(r))}

\* one pair for each flatten pair whose whole path the pattern matches, in
\* flatten order, with the flattened value
QueryPairs ==
    /\ Len(out) = Cardinality(Matched(arg[1]))
    /\ \A r \in Matched(arg[1]) :
          out[Rank(Matched(arg[1]), r)].val = ValAt(heap, root, r)

\* C7 as stated: query_keys(root, pattern) yields, in flatten order, one pair
\* for each flatten pair whose whole path the pattern matches and no other;
\* the key is the text matched by the last capturing group when the pattern
\* has one, the entire path otherwise; the value is the flattened value.
C7_KeyIsGroupText ==
    op = "query" =>
        /\ QueryPairs
        /\ \A r \in Matched(arg[1]) :
              LET key == out[Rank(Matched(arg[1]), r)].key IN
              /\ ~key.none
              /\ ~ExpectedKey(arg[1], PathOf(r)).none
                    => key = ExpectedKey(arg[1], PathOf(r))

\* C7 amended: query_keys(root, pattern) yields, in flatten order, one pair
\* for each flatten pair whose whole path the pattern matches and no other;
\* the key is the text matched by the last capturing group when the pattern
\* has one, None when that group took no part in the match, and the entire
\* path when the pattern has no capturing group; the value is the flattened
\* value.
C7_QueryKeys ==
    op = "query" =>
        /\ QueryPairs
        /\ \A r \in Matched(arg[1]) :
              out[Rank(Matched(arg[1]), r)].key = ExpectedKey(arg[1], PathOf(r))

\* .*/(a) on a tree with the path a[0]/a: the key is a, and the pair of the
\* entry a, whose path the pattern matches only in part, is not yielded
C7_Witness ==
    /\ op = "query"
    /\ arg[1] = PatSlashCapA
    /\ \E r \in EntryRoutes : PathOf(r) = <<"a", "[", "0", "]", "/", "a">>
    /\ Len(out) >= 1
    /\ out[1].key = Text(<<"a">>)
    /\ Len(out) < Cardinality(EntryRoutes)

\* C14: query_keys given a pattern that re.compile refuses fails with
\* ValueError before flatten has visited anything and without having
\* yielded a pair.
C14_InvalidPatternFailsFirst ==
    (op = "query_text" /\ arg[1] \in BadPatternTexts) =>
        /\ out.raised = "ValueError"
        /\ out.pairs = <<>>
        /\ out.flattened = 0

\* an unclosed group, on a tree that has pairs to flatten
C14_Witness ==
    /\ op = "query_text"
    /\ arg[1] = <<".", "*", "/", "(", "a">>
    /\ Len(Flatten(heap, root, <<>>)) >= 2
    /\ out.raised = "ValueError"

---------------------------------------------------------------------------
(* search_by_keys *)

\* some path counted from the dict at r0 is a string of the pattern
Hit(r0, pattern) ==
    \E r \in EntryRoutes :
        /\ IsPrefixOf(r0, r)
        /\ r # r0
        /\ InLanguage(pattern, RelPath(r0, r))

\* the dicts that search_by_keys(root, *patterns, all_=all) has to yield
Selected(patterns, all) ==
    {r0 \in DictRoutes :
        IF all THEN \A n \in 1..Len(patterns) : Hit(r0, patterns[n])
        ELSE \E n \in 1..Len(patterns) : Hit(r0, patterns[n])}

\* C8: search_by_keys(root, patterns, all) yields, in walk order, exactly the
\* dicts of walk_structures(root) below which (paths counted from the dict, not
\* from root) every pattern (all true) or at least one pattern (all false)
\* fully matches some path.
C8_SearchByKeys ==
    op = "search" =>
        /\ Len(out) = Cardinality(Selected(arg[1], arg[2]))
        /\ \A r0 \in Selected(arg[1], arg[2]) :
              out[Rank(Selected(arg[1], arg[2]), r0)] = ValAt(heap, root, r0).v

\* the pattern a on a dict that holds a dict with the key a under another key:
\* the inner dict is yielded and root, where the path is b/a, is not
C8_Witness ==
    /\ op = "search"
    /\ arg = <<(<<PatA>>), FALSE>>
    /\ IsDict(heap, root)
    /\ \E r \in EntryRoutes : PathOf(r) = <<"b", "/", "a">>
    /\ Len(out) = 1
    /\ out[1] # root.v

\* two patterns, all_=True: a dict is left out that one of the patterns hits
C8_WitnessAll ==
    /\ op = "search"
    /\ Len(arg[1]) = 2
    /\ arg[2]
    /\ \E r0 \in DictRoutes :
          /\ Hit(r0, arg[1][1])
          /\ ~Hit(r0, arg[1][2])
          /\ \A i \in 1..Len(out) : out[i] # ValAt(heap, root, r0).v
    /\ Len(out) >= 1

\* C22: for a single pattern, search_by_keys with all_ false yields the
\* sequence of dicts that search_by_keys with all_ true yields.
C22_SinglePatternAnyIsAll ==
    (op = "search" /\ Len(arg[1]) = 1) =>
        out = SearchByKeys(heap, root, arg[1], ~arg[2])

\* one pattern: some dict of the walk is yielded and some is not
C22_Witness ==
    /\ op = "search"
    /\ Len(arg[1]) = 1
    /\ Len(out) >= 1
    /\ Len(out) < Len(WalkStructures(heap, root, -1))

\* C28: with no pattern, search_by_keys with all_ true yields every dict of
\* walk_structures(root), and with all_ false it yields nothing.
C28_NoPattern ==
    (op = "search" /\ arg[1] = <<>>) =>
        out = IF arg[2] THEN WalkStructures(heap, root, -1) ELSE <<>>

\* no pattern, all_ true: two dicts are yielded
C28_Witness ==
    /\ op = "search" /\ arg = <<(<<>>), TRUE>>
    /\ Len(out) = 2

\* no pattern, all_ false: nothing is yielded of a tree that holds dicts
C28_WitnessAny ==
    /\ op = "search" /\ arg = <<(<<>>), FALSE>>
    /\ out = <<>>
    /\ Len(WalkStructures(heap, root, -1)) = 2

---------------------------------------------------------------------------
(* edit *)

KeysOf(es) == {es[i].k : i \in 1..Len(es)}

\* the value of the last pair of pairs that has the key
LastOf(pairs, key) ==
    pairs[CHOOSE i \in 1..Len(pairs) :
              /\ pairs[i].k = key
              /\ \A j \in (i + 1)..Len(pairs) : pairs[j].k # key].val

\* What a matched pair (key, _) whose converter produced pairs leaves of the
\* entries es, stated on the whole: the entries of es stay in their order,
\* without the one of key when drop is true, each with the value of the last
\* produced pair that has its key if there is one; the produced keys that
\* are not among them follow, in the order of their first production.
AfterMatch(es, key, pairs, drop) ==
    LET kept == IF drop THEN SelectSeq(es, LAMBDA e : e.k # key) ELSE es
        produced == {pairs[i].k : i \in 1..Len(pairs)}
        old == [i \in 1..Len(kept) |->
                   IF kept[i].k \in produced
                   THEN Pair(kept[i].k, LastOf(pairs, kept[i].k))
                   ELSE kept[i]]
        firsts == {i \in 1..Len(pairs) :
                      /\ pairs[i].k \notin KeysOf(kept)
                      /\ \A j \in 1..(i - 1) : pairs[j].k # pairs[i].k}
        nth(n) == CHOOSE i \in firsts : Cardinality({j \in firsts : j < i}) = n - 1
    IN old \o [n \in 1..Cardinality(firsts) |->
                  Pair(pairs[nth(n)].k, LastOf(pairs, pairs[nth(n)].k))]

RECURSIVE Expected(_)
\* the entries of the dict at hand once the first n pairs of its snapshot
\* are dealt with: the matcher and the converter see the pairs of the
\* snapshot, whatever the dict holds by then
Expected(n) ==
    IF n = 0 THEN snap
    ELSE LET es == Expected(n - 1)
             p == snap[n]
         IN IF Matcher(arg[1], p.k, p.val)
            THEN AfterMatch(es, p.k, Converter(arg[2], p.k, p.val).pairs, arg[3])
            ELSE es

\* no container is held at two places of the tree
NoSharing ==
    \A r, s \in Routes :
        (r # s /\ IsRef(ValAt(heap, root, r))) => ValAt(heap, root, r) # ValAt(heap, root, s)

\* C1: edit visits every dict of walk_structures(root); in each dict the
\* matcher is applied to the pairs of a snapshot taken when the dict is
\* reached (pairs the converter adds during the visit are not matched); for
\* each matched pair the key is removed first when drop is true, then every
\* pair produced by converter(key, snapshot value) is assigned in production
\* order, a later assignment to a key overwriting an earlier one.
C1_Edit ==
    op = "edit" =>
        /\ (node # 0 /\ pc \in {"keys", "walk", "done"}) =>
              heap[node].e = Expected(ki - 1)
        /\ (IsDict(heap, root) /\ log # <<>>) => log[1] = root.v
        /\ pc = "done" =>
              LET walk == WalkStructures(heap, root, -1) IN
              /\ \A i \in 1..Len(walk) : \E j \in 1..Len(log) : log[j] = walk[i]
              /\ NoSharing => log = walk

\* the edit of the tests on {"b": {"a": 1}}, with drop: the inner dict is
\* visited second and left as {"a": 2, "a-new": 3}
C1_Witness ==
    /\ op = "edit" /\ pc = "done" /\ arg = <<"key", "test", TRUE>>
    /\ IsDict(heap, root)
    /\ Len(log) = 2
    /\ heap[log[1]].e = <<Pair(KB, Ref(log[2]))>>
    /\ heap[log[2]].e = <<Pair(KA, Scalar(2)), Pair(KA \o Suffix, Scalar(3))>>

\* a pair that the converter added is not matched in the same visit, and a
\* dict that the converter stored at a second key is visited twice
C1_WitnessAdded ==
    /\ op = "edit" /\ pc = "done" /\ arg = <<"every", "rename", FALSE>>
    /\ IsDict(heap, root)
    /\ KeysOf(heap[root.v].e) = {KA, KA \o Suffix}
    /\ ~NoSharing
    /\ Len(log) = 3

\* C2: if converter(key, value) raises, the entry of key is still in its
\* dict and unchanged, also when drop is true.
C2_FailureLeavesEntry ==
    [][(op = "edit" /\ pc = "keys" /\ pc' = "failed") =>
          \E i \in 1..Len(heap[node].e) :
              /\ heap[node].e[i].k = snap[ki].k
              /\ \E j \in 1..Len(heap'[node].e) : heap'[node].e[j] = heap[node].e[i]]_vars

\* the root is neither a dict nor a list that holds a dict: a scalar, or a
\* list of scalars
NoDictAtRoot ==
    \/ ~IsRef(root)
    \/ IsList(heap, root) /\ \A i \in 1..Len(heap[root.v].e) : ~IsRef(heap[root.v].e[i].val)

\* C15 as stated: edit called with a root that is neither a dict nor a
\* sequence of dicts fails; it does not return.
C15_ScalarRootFails ==
    (op = "edit" /\ NoDictAtRoot) => pc # "done"

\* C15 amended: edit called with a scalar or with a list of scalars returns
\* without an error; it visits nothing, so that the matcher and the
\* converter are never called and nothing is changed.
C15_ScalarRootIsLeft ==
    (op = "edit" /\ NoDictAtRoot) =>
        /\ pc \in {"walk", "done"}
        /\ log = <<>>
        /\ node = 0
        /\ \A id \in 1..Len(heap) : id = root.v /\ heap[id].t = "a"

\* edit has returned from a call on a list of two scalars
C15_Witness ==
    /\ op = "edit" /\ pc = "done" /\ arg[1] = "every"
    /\ IsList(heap, root)
    /\ NoDictAtRoot
    /\ Len(heap[root.v].e) = 2

\* edit has returned from a call on a scalar
C15_WitnessScalar ==
    /\ op = "edit" /\ pc = "done" /\ arg[1] = "every"
    /\ ~IsRef(root)

---------------------------------------------------------------------------
(* apply_mapping and convert_keys_to_naming_convention *)

\* C16: apply_mapping and convert_keys_to_naming_convention called with a
\* root that is neither a dict nor a list raise TypeError before any
\* function of the mapping or any conversion is called and before anything
\* is changed.
C16_ScalarRootRaises ==
    (op \in {"apply_mapping", "convert_keys"} /\ ~IsRef(root)) =>
        /\ out.raised = "TypeError"
        /\ out.calls = <<>>
        /\ heap = arg.before

\* apply_mapping has raised TypeError for a scalar
C16_Witness ==
    /\ op = "apply_mapping"
    /\ ~IsRef(root)
    /\ out.raised = "TypeError"

\* convert_keys_to_naming_convention has raised TypeError for a scalar
C16_WitnessConvert ==
    /\ op = "convert_keys"
    /\ ~IsRef(root)
    /\ out.raised = "TypeError"

\* the containers held in the tree of x
Reachable(h, x) ==
    {ValAt(h, x, r).v : r \in {s \in RoutesFrom(h, x) : IsRef(ValAt(h, x, s))}}

MappingKeys(mapping) == {mapping[i].k : i \in 1..Len(mapping)}

FunctionOf(mapping, key) ==
    mapping[CHOOSE i \in 1..Len(mapping) : mapping[i].k = key].f

\* the entry e after mapping[e.k](e.k, e.val) has replaced its value, if
\* the mapping has the key
Mapped(mapping, e) ==
    IF e.k \in MappingKeys(mapping)
    THEN Pair(e.k, MapFunction(FunctionOf(mapping, e.k), e.k, e.val).val)
    ELSE e

RECURSIVE EachSeparately(_, _, _, _)
\* the heap after apply_mapping is called for each element in turn, from
\* the i-th
EachSeparately(h, elems, i, mapping) ==
    IF i > Len(elems) THEN h
    ELSE EachSeparately(ApplyMapping(h, elems[i].val, mapping).h, elems, i + 1, mapping)

\* C17: apply_mapping(root, mapping) that returns has replaced, in every
\* dict of the tree of root, the value of each key that the dict and the
\* mapping both have by mapping[key](key, value), each such function being
\* called once; no function is called for a key that the dict does not
\* have; every other entry, and the order of the entries, is unchanged; for
\* a list of dicts or lists the result is that of apply_mapping called for
\* each element in turn.
C17_ApplyMapping ==
    (op = "apply_mapping" /\ out.raised = "") =>
        LET mapping == arg.args[1]
            before == arg.before
            reached == Reachable(heap, root)
        IN /\ DOMAIN heap = DOMAIN before
           /\ \A id \in reached :
                 /\ heap[id].t = before[id].t
                 /\ heap[id].e =
                       IF heap[id].t = "o"
                       THEN [i \in 1..Len(before[id].e) |-> Mapped(mapping, before[id].e[i])]
                       ELSE before[id].e
           /\ \A id \in DOMAIN heap \ reached : heap[id] = before[id]
           /\ \A i \in 1..Len(out.calls) :
                 HasKey(before[out.calls[i][1]].e, out.calls[i][2])
           /\ \A id \in reached :
                 \A key \in KeysOf(before[id].e) \cap MappingKeys(mapping) :
                     before[id].t = "o" =>
                         Cardinality({i \in 1..Len(out.calls) : out.calls[i] = <<id, key>>}) = 1
           /\ (IsList(before, root) /\ \A i \in 1..Len(before[root.v].e) :
                                           IsRef(before[root.v].e[i].val)) =>
                 heap = EachSeparately(before, before[root.v].e, 1, mapping)

\* {"a": 1, "b": {"a": 1}} with the mapping {a: inc, c: fail}: both values
\* of a are replaced and the function of c is not called
C17_Witness ==
    /\ op = "apply_mapping" /\ out.raised = ""
    /\ arg.args[1] = <<MapItem(KA, "inc"), MapItem(KC, "fail")>>
    /\ IsDict(heap, root)
    /\ Len(out.calls) = 2
    /\ heap[root.v].e[1] = Pair(KA, Scalar(arg.before[root.v].e[1].val.v + 1))

\* a list of two dicts, the mapping applied to one entry of one of them
C17_WitnessList ==
    /\ op = "apply_mapping" /\ out.raised = ""
    /\ IsList(heap, root)
    /\ Len(heap[root.v].e) = 2
    /\ \A i \in 1..2 : IsDict(heap, heap[root.v].e[i].val)
    /\ Len(out.calls) = 1
    /\ heap # arg.before

\* a dict held at a key of the mapping is replaced by a scalar and is not
\* walked afterwards
C17_WitnessDetached ==
    /\ op = "apply_mapping" /\ out.raised = ""
    /\ Reachable(heap, root) # DOMAIN heap

\* the dicts held in the tree of x
ReachableDicts(h, x) == {id \in Reachable(h, x) : h[id].t = "o"}

\* what convert_keys_to_naming_convention(root, from, dest) is to leave,
\* given the tree and the heap before it: every dict of the tree has the
\* image of its keys for keys, each converted key with the value of the key
\* it comes from, no entry less; a key of before is still there only if it
\* is the conversion of a key of the dict; lists are as they were
KeysConverted(before, from, dest) ==
    LET c(key) == ConvertNameToNamingConvention(key, from, dest) IN
    /\ DOMAIN heap = DOMAIN before
    /\ Reachable(heap, root) = Reachable(before, root)
    /\ \A id \in Reachable(before, root) :
          /\ heap[id].t = before[id].t
          /\ before[id].t = "a" => heap[id] = before[id]
    /\ \A id \in ReachableDicts(before, root) :
          LET was == before[id].e
              is == heap[id].e
          IN /\ KeysOf(is) = {c(key) : key \in KeysOf(was)}
             /\ \A i \in 1..Len(was) :
                   /\ HasKey(is, c(was[i].k))
                   /\ ValueOf(is, c(was[i].k)) = was[i].val
             /\ Len(is) = Len(was)
             /\ \A key \in KeysOf(was) \cap KeysOf(is) :
                   \E other \in KeysOf(was) : c(other) = key

\* in each dict of the tree, two keys have two conversions and the
\* conversion of a key is not another key of the dict
ConvertsApart(h, x, from, dest) ==
    LET c(key) == ConvertNameToNamingConvention(key, from, dest) IN
    \A id \in ReachableDicts(h, x) :
        \A k1, k2 \in KeysOf(h[id].e) :
            k1 # k2 => (c(k1) # c(k2) /\ c(k1) # k2)

\* C18: after convert_keys_to_naming_convention(root, from, to) every dict
\* of the tree has as its keys the image of its original keys under
\* convert(key, from, to), each converted key holds the value of the key it
\* came from, no value is lost, and an original key survives only if it is
\* the conversion of a key of the same dict.
C18_KeysConverted ==
    (op = "convert_keys" /\ IsRef(root)) =>
        /\ out.raised = ""
        /\ KeysConverted(arg.before, arg.args[1], arg.args[2])

\* C18, for trees in which, within each dict, distinct keys have distinct
\* conversions and no key's conversion is another key of the dict
C18_KeysConvertedApart ==
    (op = "convert_keys" /\ IsRef(root)
       /\ ConvertsApart(arg.before, root, arg.args[1], arg.args[2])) =>
        /\ out.raised = ""
        /\ KeysConverted(arg.before, arg.args[1], arg.args[2])

\* {"a_b": {"b": 1}} from snake_case to CamelCase is left as {"AB": {"B": 1}}
C18_Witness ==
    /\ op = "convert_keys" /\ arg.args = <<"snake_case", "CamelCase">>
    /\ IsDict(heap, root)
    /\ ConvertsApart(arg.before, root, "snake_case", "CamelCase")
    /\ KeysOf(arg.before[root.v].e) = {KSnake}
    /\ KeysOf(heap[root.v].e) = {KCamel}
    /\ IsDict(heap, ValueOf(heap[root.v].e, KCamel))
    /\ heap[ValueOf(heap[root.v].e, KCamel).v].e = <<Pair(KUpperB, Scalar(1))>>

\* {"a_b": {}, "AB": 1} from snake_case to CamelCase is left as {"Ab": 1}
C18_WitnessLost ==
    /\ op = "convert_keys" /\ arg.args = <<"snake_case", "CamelCase">>
    /\ IsDict(heap, root)
    /\ Len(arg.before[root.v].e) = 2
    /\ arg.before[root.v].e[1].k = KSnake
    /\ IsDict(arg.before, arg.before[root.v].e[1].val)
    /\ arg.before[root.v].e[2] = Pair(KCamel, Scalar(1))
    /\ heap[root.v].e = <<Pair(<<"A", "b">>, Scalar(1))>>

---------------------------------------------------------------------------
(* edit called twice *)

\* the keys and the values that converters are compared on
SampleKeys == {KA, KB, KA \o Suffix, KB \o Suffix}
SampleValues == {Scalar(1), Scalar(2), Scalar(3), Scalar(7), Ref(1)}

\* the converter c is idempotent on its own output: called with a pair that
\* it yielded, it does what it did in the call that yielded the pair
Idempotent(c) ==
    \A key \in SampleKeys, val \in SampleValues :
        LET first == Converter(c, key, val) IN
        \A i \in 1..Len(first.pairs) :
            Converter(c, first.pairs[i].k, first.pairs[i].val) = first

\* C19: edit applied twice with drop false, the same matcher and a
\* converter that is idempotent on its own output leaves the tree that
\* applying it once leaves.
C19_TwiceIsOnce ==
    (op = "edit_twice" /\ ~arg.args[3] /\ Idempotent(arg.args[2])) =>
        /\ heap = arg.once
        /\ out.raised = arg.raised

\* the second call with the converter that yields ('b', v) and a matcher
\* that is always true, on a dict that the first call has changed
C19_Witness ==
    /\ op = "edit_twice" /\ arg.args = <<"every", "to_b", FALSE>>
    /\ Idempotent("to_b")
    /\ IsDict(heap, root)
    /\ arg.once # arg.before
    /\ Len(out.calls) >= 2

\* a converter that is not idempotent: the second call changes the tree
C19_WitnessNotIdempotent ==
    /\ op = "edit_twice" /\ ~arg.args[3]
    /\ ~Idempotent(arg.args[2])
    /\ out.raised = "" /\ arg.raised = ""
    /\ heap # arg.once

\* every pair of the tree that the matcher m takes is one for which the
\* converter c yields a pair with the key it is called with
ReEmitsOn(h, m, c) ==
    \A id \in DOMAIN h :
        h[id].t = "o" =>
            \A i \in 1..Len(h[id].e) :
                LET e == h[id].e[i] IN
                Matcher(m, e.k, e.val) => HasKey(Converter(c, e.k, e.val).pairs, e.k)

\* the dicts of h1 and h2 have the same keys with the same values, and the
\* lists the same elements
SameMappings(h1, h2) ==
    /\ DOMAIN h1 = DOMAIN h2
    /\ \A id \in DOMAIN h1 :
          /\ h1[id].t = h2[id].t
          /\ h1[id].t = "a" => h1[id].e = h2[id].e
          /\ h1[id].t = "o" =>
                /\ KeysOf(h1[id].e) = KeysOf(h2[id].e)
                /\ \A key \in KeysOf(h1[id].e) :
                      ValueOf(h1[id].e, key) = ValueOf(h2[id].e, key)

\* C20: with a matcher and a converter that yields, for every pair that is
\* matched, a pair with the matched key, edit with drop true and edit with
\* drop false, called on equal trees, leave trees whose dicts have the same
\* keys with the same values (the order of the keys is not compared).
C20_DropOrNot ==
    (op = "edit_other" /\ ReEmitsOn(arg.before, arg.args[1], arg.args[2])) =>
        /\ SameMappings(arg.once, heap)
        /\ out.raised = arg.raised

\* the converter of the tests, which yields (k, v + 1) and (k + '-new',
\* v + 2), for the key a: the two calls leave the keys in two orders
C20_Witness ==
    /\ op = "edit_other" /\ arg.args[1] = "key" /\ arg.args[2] = "test"
    /\ ReEmitsOn(arg.before, "key", "test")
    /\ out.raised = ""
    /\ IsDict(heap, root)
    /\ KeysOf(heap[root.v].e) = {KA, KB, KA \o Suffix}
    /\ heap # arg.once

\* a converter that does not yield the matched key: drop makes a difference
C20_WitnessRenamed ==
    /\ op = "edit_other" /\ arg.args[2] = "rename"
    /\ ~ReEmitsOn(arg.before, arg.args[1], "rename")
    /\ ~SameMappings(arg.once, heap)

---------------------------------------------------------------------------
(* unflatten *)

RECURSIVE SameValue(_, _, _)
\* x == y of Python: dicts with the same keys and equal values, whatever
\* the order of the keys, lists with equal elements in the same order
SameValue(h, x, y) ==
    IF ~IsRef(x) \/ ~IsRef(y) THEN x = y
    ELSE LET a == h[x.v]
             b == h[y.v]
         IN /\ a.t = b.t
            /\ Len(a.e) = Len(b.e)
            /\ a.t = "a" => \A i \in 1..Len(a.e) : SameValue(h, a.e[i].val, b.e[i].val)
            /\ a.t = "o" =>
                  /\ KeysOf(a.e) = KeysOf(b.e)
                  /\ \A key \in KeysOf(a.e) :
                        SameValue(h, ValueOf(a.e, key), ValueOf(b.e, key))

\* a dict, or a list whose elements are dicts
ObjectOrObjects(h, x) ==
    \/ IsDict(h, x)
    \/ IsList(h, x) /\ \A i \in 1..Len(h[x.v].e) : IsDict(h, h[x.v].e[i].val)

\* C21: for a dict or a list of dicts x of which flatten yields a pair,
\* unflatten of the pairs of flatten(x), in their order, returns a value
\* equal to x, a dict when the first path has no index and a list otherwise.
C21_UnflattenRecovers ==
    (op = "unflatten" /\ ObjectOrObjects(heap, root) /\ arg # <<>>) =>
        /\ out.raised = ""
        /\ SameValue(heap, out.val, root)
        /\ IsList(heap, out.val) <=> DecomposeFlattenPath(arg[1].path).index.some

---------------------------------------------------------------------------
(* naming conventions *)

\* a character of a word after its first one: a lower-case letter, and a
\* digit where digits are let into words
InWord(c, digits) == IsLower(c) \/ (digits /\ IsDigit(c))

\* words joined by one sep each, no sep at either end
Joined(s, sep) ==
    /\ s # <<>> /\ s[1] # sep /\ s[Len(s)] # sep
    /\ \A i \in 1..(Len(s) - 1) : ~(s[i] = sep /\ s[i + 1] = sep)

\* the name follows the convention:
\*   snake_case      words of lower-case letters joined by underlines
\*   CamelCase       words that start with an upper-case letter, not joined
\*   lowerCamelCase  the same, the first word in lower case
\*   Display Name    words that start with an upper-case letter joined by
\*                   spaces
Follows(s, convention, digits) ==
    CASE convention = "snake_case" ->
             /\ Joined(s, "_")
             /\ \A i \in 1..Len(s) : s[i] = "_" \/ InWord(s[i], digits)
      [] convention = "CamelCase" ->
             /\ s # <<>> /\ IsUpper(s[1])
             /\ \A i \in 1..Len(s) : IsUpper(s[i]) \/ InWord(s[i], digits)
      [] convention = "lowerCamelCase" ->
             /\ s # <<>> /\ IsLower(s[1])
             /\ \A i \in 1..Len(s) : IsUpper(s[i]) \/ InWord(s[i], digits)
      [] convention = "Display Name" ->
             /\ Joined(s, " ")
             /\ \A i \in 1..Len(s) :
                    IF i = 1 \/ s[i - 1] = " " THEN IsUpper(s[i])
                    ELSE s[i] = " " \/ InWord(s[i], digits)

\* C23: a name that follows convention A, converted from A to B and back
\* from B to A, is the name again, for every A and B of the four conventions
\* (words of letters and digits)
C23_RoundTrip ==
    (op = "convert_name" /\ Follows(arg[1], arg[2], TRUE)) => out.back = arg[1]

\* C23, words of letters only
C23_RoundTripOfLetters ==
    (op = "convert_name" /\ Follows(arg[1], arg[2], FALSE)) => out.back = arg[1]

\* a_b of snake_case is AB in CamelCase and a_b again
C23_Witness ==
    /\ op = "convert_name"
    /\ arg = <<<<"a", "_", "b">>, "snake_case", "CamelCase">>
    /\ out.there = <<"A", "B">>
    /\ out.back = arg[1]

\* A B of Display Name is aB in lowerCamelCase and A B again
C23_WitnessDisplay ==
    /\ op = "convert_name"
    /\ arg = <<<<"A", " ", "B">>, "Display Name", "lowerCamelCase">>
    /\ out.there = <<"a", "B">>
    /\ out.back = arg[1]

\* a_1 of snake_case is A1 in CamelCase, and that is a1 in snake_case
C23_WitnessDigit ==
    /\ op = "convert_name"
    /\ arg = <<<<"a", "_", "1">>, "snake_case", "CamelCase">>
    /\ out.there = <<"A", "1">>
    /\ out.back = <<"a", "1">>

---------------------------------------------------------------------------
(* the lazy walk of edit *)

\* the dicts that edit has visited
Visited == {log[j] : j \in 1..Len(log)}

\* the dicts that the converter has stored
StoredDicts == {out[j] : j \in {i \in 1..Len(out) : heap[out[i]].t = "o"}}

\* C24: the values of a dict are enumerated by the walk after the edits of
\* that dict are complete; a dict that the converter stored is visited
\* later in the call, and a dict under a key that drop removed and that was
\* not inserted again is not visited.
C24_StoredIsVisited ==
    op = "edit" =>
        /\ pc = "keys" => stack[Len(stack)] = [id |-> node, i |-> 1]
        /\ pc = "done" =>
              /\ StoredDicts \subseteq Visited
              /\ Visited \subseteq ReachableDicts(heap, root)

\* C24, for the dicts that are held when the edits of their holder are
\* complete: they are the dicts visited
C24_HeldAreVisited ==
    op = "edit" =>
        /\ pc = "keys" => stack[Len(stack)] = [id |-> node, i |-> 1]
        /\ pc = "done" => Visited = ReachableDicts(heap, root)

\* {"a": {"a": 1}} edited with the renaming converter and drop: the inner
\* dict, stored under "a-new", is visited after the root and edited
C24_Witness ==
    /\ op = "edit" /\ pc = "done" /\ arg = <<"key", "rename", TRUE>>
    /\ IsDict(heap, root)
    /\ Len(log) = 2 /\ log[1] = root.v
    /\ out = <<log[2]>>
    /\ heap[root.v].e = <<Pair(KA \o Suffix, Ref(log[2]))>>
    /\ heap[log[2]].e = <<Pair(KA \o Suffix, Scalar(1))>>

\* the dict under "a" is removed by drop, the converter yields nothing: it
\* is not visited
C24_WitnessDropped ==
    /\ op = "edit" /\ pc = "done" /\ arg = <<"key", "nothing", TRUE>>
    /\ IsDict(heap, root)
    /\ log = <<root.v>>
    /\ heap[root.v].e = <<>>
    /\ \E id \in 1..Len(heap) : id # root.v /\ heap[id].t = "o"

\* a dict that the converter stored under "b" is removed by the edit of the
\* next pair of the snapshot: it is not visited
C24_WitnessStoredAndLost ==
    /\ op = "edit" /\ pc = "done" /\ arg = <<"every", "to_b", TRUE>>
    /\ IsDict(heap, root)
    /\ log = <<root.v>>
    /\ heap[root.v].e = <<Pair(KB, Scalar(1))>>
    /\ \E id \in StoredDicts : id \notin Visited

\* C25: edit called on a finite tree with a matcher that returns and a
\* converter that yields finitely many pairs whose values are scalars or
\* the value of the matched pair comes to an end, it returns or it raises;
\* with a converter that yields new dicts holding a key that the matcher
\* takes it need not: once such a dict is stored edit does not return (the
\* walk goes down the new dicts until the interpreter stops it).
C25_EditTerminates ==
    /\ (op = "edit" /\ arg[2] # "nest") ~> (pc \in {"done", "failed"})
    /\ []((op = "edit" /\ arg[2] = "nest" /\ out # <<>>) => pc # "done")

\* edit has returned after it visited twice a dict that the converter had
\* stored at a second key
C25_Witness ==
    /\ op = "edit" /\ pc = "done" /\ arg = <<"every", "rename", FALSE>>
    /\ out # <<>>
    /\ \E i, j \in 1..Len(log) : i # j /\ log[i] = log[j]

\* edit with the converter of new dicts is stopped, RecursionLimit frames
\* deep in dicts that the converter built
C25_WitnessNest ==
    /\ op = "edit" /\ pc = "failed" /\ arg = <<"key", "nest", TRUE>>
    /\ Len(stack) = RecursionLimit
    /\ Len(out) >= RecursionLimit - 1

---------------------------------------------------------------------------
(* what edit leaves alone *)

\* the keys that the converter c yields for the pairs of es that the
\* matcher m takes
Produced(es, m, c) ==
    UNION {KeysOf(Converter(c, es[i].k, es[i].val).pairs) :
              i \in {j \in 1..Len(es) : Matcher(m, es[j].k, es[j].val)}}

\* the keys of the entries of es that the matcher rejects and that the
\* converter does not yield for another pair of es
UntouchedKeys(es, m, c) ==
    {es[i].k : i \in {j \in 1..Len(es) : ~Matcher(m, es[j].k, es[j].val)}}
        \ Produced(es, m, c)

\* the entries of es with a key of keys, in their order
EntriesWith(es, keys) == SelectSeq(es, LAMBDA e : e.k \in keys)

\* C26: an entry whose pair the matcher rejects and whose key the converter
\* does not yield for another pair of the same dict is left by edit with its
\* key, its value and its place among the other such entries; lists are
\* left as they are; with a matcher that rejects every pair the converter
\* is not called and the tree is unchanged.
C26_Frame ==
    op = "edit_once" =>
        /\ DOMAIN heap = DOMAIN arg.before
        /\ \A id \in DOMAIN heap :
              /\ heap[id].t = arg.before[id].t
              /\ heap[id].t = "a" => heap[id] = arg.before[id]
              /\ heap[id].t = "o" =>
                    LET keys == UntouchedKeys(arg.before[id].e,
                                              arg.args[1], arg.args[2])
                    IN EntriesWith(heap[id].e, keys) = EntriesWith(arg.before[id].e, keys)
        /\ arg.args[1] = "none" => (out.calls = <<>> /\ heap = arg.before)

\* {"b": 1, "a": 1, "c": {}} edited for the key a with the renaming
\* converter and drop: b and c are left, in this order, a is gone
C26_Witness ==
    /\ op = "edit_once" /\ arg.args = <<"key", "rename", TRUE>>
    /\ IsDict(heap, root)
    /\ Len(arg.before[root.v].e) = 3
    /\ arg.before[root.v].e[1].k = KB
    /\ arg.before[root.v].e[2].k = KA
    /\ IsRef(arg.before[root.v].e[3].val)
    /\ heap[root.v].e = <<arg.before[root.v].e[1], arg.before[root.v].e[3],
                          Pair(KA \o Suffix, Scalar(1))>>

\* a matcher that rejects every pair, on a tree with a dict in a dict
C26_WitnessNone ==
    /\ op = "edit_once" /\ arg.args[1] = "none"
    /\ IsDict(heap, root)
    /\ \E i \in 1..Len(heap[root.v].e) :
          /\ IsDict(heap, heap[root.v].e[i].val)
          /\ heap[heap[root.v].e[i].val.v].e # <<>>
    /\ out = [raised |-> "", calls |-> <<>>]

---------------------------------------------------------------------------
(* the place of a key that the converter yields again *)

\* the place of key in es
PlaceOf(es, key) == CHOOSE i \in 1..Len(es) : es[i].k = key

\* the pair of the snapshot that edit is at is matched, its key is in the
\* dict and the converter yields a pair with that key
ReEmitsHere ==
    /\ op = "edit" /\ pc = "keys"
    /\ Matcher(arg[1], snap[ki].k, snap[ki].val)
    /\ HasKey(heap[node].e, snap[ki].k)
    /\ HasKey(Converter(arg[2], snap[ki].k, snap[ki].val).pairs, snap[ki].k)

C27_WitnessKept ==
    /\ op = "edit" /\ pc = "done" /\ arg = <<"key", "same", FALSE>>
    /\ IsDict(heap, root) /\ log = <<root.v>>
    /\ snap = <<Pair(KA, Scalar(1)), Pair(KB, Scalar(1))>>
    /\ heap[root.v].e = snap

---------------------------------------------------------------------------
(* the paths of flatten *)

\* every key of the tree has a character at least and none of '/', '[', ']'
NamedPlainTree ==
    \A r \in EntryRoutes : EntryOf(r).k # <<>> /\ IsPlainKey(EntryOf(r).k)

\* two pairs of flatten(root) have the same path
PathYieldedTwice ==
    \E i, j \in 1..Len(out) : i # j /\ out[i].path = out[j].path

\* C29: on a tree whose keys are not empty and hold none of '/', '[' and
\* ']', no two pairs of flatten(root) have the same path; with an empty key
\* or a key that holds '/', two pairs can have the same path.
C29_PathsDistinct ==
    (op = "flatten" /\ NamedPlainTree) => ~PathYieldedTwice

\* {"a": [{"a": 1}]}: the paths a and a[0]/a
C29_Witness ==
    /\ op = "flatten" /\ NamedPlainTree
    /\ Len(out) = 2
    /\ out[1].path = KA
    /\ out[2].path = <<"a", "[", "0", "]", "/", "a">>

\* the key 'a/a' beside the key 'a' of a dict that holds the key 'a':
\* {"a/a": 1, "a": {"a": 1}} yields the path a/a twice
C29_WitnessSlash ==
    /\ op = "flatten" /\ PathYieldedTwice
    /\ Len(out) = 3
    /\ out[1].path = KSlash /\ out[2].path = KA /\ out[3].path = KSlash

\* the empty key: {"": {"a": 1}, "a": 1} yields the path a twice
C29_WitnessEmptyKey ==
    /\ op = "flatten" /\ PathYieldedTwice
    /\ Len(out) = 3
    /\ out[1].path = <<>> /\ out[2].path = KA /\ out[3].path = KA

====
